---- MODULE Spec2Model ----
(***************************************************************************)
(* Position ledger, sell loop, allowance manager, buy watcher and          *)
(* graduation bot of fomosniperLFG, as state machines.                     *)
(*                                                                         *)
(* Addresses are tuples of character codes, so that toLowerCase is         *)
(* computed.  JavaScript objects live in the heap `objs` and are referred  *)
(* to by their index, so that two references to one Position alias.        *)
(* bigint arithmetic is unbounded integer arithmetic; bigint division      *)
(* truncates toward zero (TruncDiv).                                       *)
(***************************************************************************)
EXTENDS Integers, Sequences, FiniteSets, TLC

VARIABLES
    prog,       \* which program of the repository is running
    map,        \* positions.ts `map`: entries <<key, object>> in insertion order
    objs,       \* heap of Position objects
    snap,       \* last array returned by allPositions() to the ledger's caller
    led,        \* history: what the onBuy calls since a position's creation add up to
    calls,      \* history: number of ledger calls made by the ledger's caller
    dec,        \* the decision gate applied to one set of inputs
    fee,        \* the fee bump applied along one replacement series
    scfg,       \* index.ts: the Cfg the sell loop was started with
    inFlight,   \* positions.ts `inFlight`: the guarded keys
    st,         \* positions.ts: the onBlock calls of the sell loop
    bw,         \* sell.ts: the onLogs calls of the buy watcher
    blogs,      \* history: BondingSystemCreated logs delivered to the buy watcher
    ev,         \* history: the evaluation or buy the last step ended, if it ended one
    gmain,      \* gradbot.ts: where main() is
    active,     \* gradbot.ts `active`: entries <<curve, CurveInfo object>> in insertion order
    infos,      \* heap of CurveInfo objects
    gt,         \* gradbot.ts: the tick() calls, one per delivered block
    txCount,    \* chain: transactions of the bot's account the node has accepted
    gevents     \* history: CurveCreated logs delivered to the factory watch

ledgerVars == <<map, objs, snap, led, calls>>
gradVars == <<gmain, active, infos, gt, txCount, gevents>>
indexVars == <<scfg, inFlight, st, bw, blogs>>
vars == <<prog, map, objs, snap, led, calls, dec, fee, scfg, inFlight, st, bw, blogs, ev,
          gmain, active, infos, gt, txCount, gevents>>

----------------------------------------------------------------------------
(* Bounds *)

MaxLedgerCalls == 3
MaxObjs == 3

----------------------------------------------------------------------------
(* Values *)

\* "A", "a" and "b": two spellings of one token address, and another token.
TokenAddrs == {<<65>>, <<97>>, <<98>>}
\* "c" and "d": two curves (venues).
CurveAddrs == {<<99>>, <<100>>}
CostDeltas == {5, 100}
Heights == {3, 5}

\* String.prototype.toLowerCase on ASCII codes.
toLowerCase(s) == [i \in DOMAIN s |-> IF s[i] \in 65..90 THEN s[i] + 32 ELSE s[i]]

keyOf(addr) == toLowerCase(addr)

Keys == {keyOf(a) : a \in TokenAddrs}

\* bigint `/`: the quotient truncated toward zero (d # 0).
TruncDiv(n, d) ==
    LET an == IF n < 0 THEN -n ELSE n
        ad == IF d < 0 THEN -d ELSE d
        q  == an \div ad
    IN  IF (n < 0) = (d < 0) THEN q ELSE -q

Min(a, b) == IF a < b THEN a ELSE b

----------------------------------------------------------------------------
(* Map<string, Position>: insertion-ordered entries [k, o] *)

MapIndex(m, k) ==
    IF \E i \in 1..Len(m) : m[i].k = k
    THEN CHOOSE i \in 1..Len(m) : m[i].k = k
    ELSE 0

MapHas(m, k) == MapIndex(m, k) # 0

\* map.get(k): the object, or 0 for undefined.
MapGet(m, k) == IF MapHas(m, k) THEN m[MapIndex(m, k)].o ELSE 0

\* map.set(k, o): an existing key keeps its place in the order.
MapSet(m, k, o) ==
    IF MapHas(m, k)
    THEN [m EXCEPT ![MapIndex(m, k)] = [k |-> k, o |-> o]]
    ELSE Append(m, [k |-> k, o |-> o])

\* map.delete(k)
MapDelete(m, k) ==
    IF MapHas(m, k)
    THEN LET i == MapIndex(m, k)
         IN  SubSeq(m, 1, i - 1) \o SubSeq(m, i + 1, Len(m))
    ELSE m

\* Array.from(map.values()): a new array of the same objects.
MapValues(m) == [i \in 1..Len(m) |-> m[i].o]

----------------------------------------------------------------------------
(* positions.ts: the ledger operations, on (map, objs) *)

Position(token, curve, totalCostWei, firstSeenBlock) ==
    [token |-> token, curve |-> curve,
     totalCostWei |-> totalCostWei, firstSeenBlock |-> firstSeenBlock]

upsertPosition(m, h, p) ==
    [map |-> MapSet(m, keyOf(p.token), Len(h) + 1), objs |-> Append(h, p)]

getPosition(m, token) == MapGet(m, keyOf(token))

allPositions(m) == MapValues(m)

removePosition(m, token) == MapDelete(m, keyOf(token))

\* map.clear()
clearPositions(m) == <<>>

\* onBuy as first written (positions.ts:17-25): neither the earliest block
\* nor the curve is updated.  The later declaration below replaces it.
onBuyEarlier(m, h, token, curve, costWei, blockNumber) ==
    LET k == toLowerCase(token)
        existing == MapGet(m, k)
    IN  IF existing # 0
        THEN [map |-> m,
              objs |-> [h EXCEPT ![existing].totalCostWei = @ + costWei]]
        ELSE [map |-> MapSet(m, k, Len(h) + 1),
              objs |-> Append(h, Position(token, curve, costWei, blockNumber))]

onBuy(m, h, token, curve, costWei, blockNumber) ==
    LET k == keyOf(token)
        existing == MapGet(m, k)
    IN  IF existing # 0
        THEN [map |-> m,
              objs |-> [h EXCEPT
                  ![existing].totalCostWei = @ + costWei,
                  ![existing].firstSeenBlock =
                      IF blockNumber < @ THEN blockNumber ELSE @,
                  ![existing].curve = curve]]
        ELSE [map |-> MapSet(m, k, Len(h) + 1),
              objs |-> Append(h, Position(token, curve, costWei, blockNumber))]

----------------------------------------------------------------------------
(* The ledger driven through its exported operations *)

NoDec == [phase |-> "off"]

NoFee == [phase |-> "off"]

NoEv == [who |-> "none"]

\* index.ts is not running.
IndexOff ==
    /\ scfg = [enabled |-> FALSE]
    /\ inFlight = {}
    /\ st = <<>>
    /\ bw = <<>>
    /\ blogs = 0

LedgerIdle == map = <<>> /\ objs = <<>> /\ snap = <<>> /\ calls = 0

\* gradbot.ts is not running.
GradOff ==
    /\ gmain = "off"
    /\ active = <<>>
    /\ infos = <<>>
    /\ gt = <<>>
    /\ txCount = 0
    /\ gevents = 0

NoEntries == [tracked |-> FALSE, n |-> 0, sum |-> 0, firstH |-> 0, minH |-> 0, last |-> <<>>]

InitLedger ==
    /\ prog = "ledger"
    /\ map = <<>>
    /\ objs = <<>>
    /\ snap = <<>>
    /\ led = [k \in Keys |-> NoEntries]
    /\ calls = 0
    /\ dec = NoDec
    /\ fee = NoFee
    /\ ev = NoEv
    /\ IndexOff
    /\ GradOff

LedgerOnBuy ==
    /\ prog = "ledger"
    /\ calls < MaxLedgerCalls
    /\ \E token \in TokenAddrs, curve \in CurveAddrs,
          costWei \in CostDeltas, blockNumber \in Heights :
          LET r == onBuy(map, objs, token, curve, costWei, blockNumber)
              k == keyOf(token)
          IN  /\ Len(r.objs) <= MaxObjs
              /\ map' = r.map
              /\ objs' = r.objs
              /\ led' = [led EXCEPT ![k] =
                    IF MapHas(map, k)
                    THEN [@ EXCEPT !.n = @ + 1,
                                   !.sum = @ + costWei,
                                   !.minH = Min(@, blockNumber),
                                   !.last = curve]
                    ELSE [tracked |-> TRUE, n |-> 1, sum |-> costWei,
                          firstH |-> blockNumber,
                          minH |-> blockNumber, last |-> curve]]
    /\ calls' = calls + 1
    /\ UNCHANGED <<prog, snap, dec, fee, ev, indexVars, gradVars>>

LedgerRemovePosition ==
    /\ prog = "ledger"
    /\ calls < MaxLedgerCalls
    /\ \E token \in TokenAddrs :
          /\ map' = removePosition(map, token)
          /\ led' = [led EXCEPT ![keyOf(token)] = NoEntries]
    /\ calls' = calls + 1
    /\ UNCHANGED <<prog, objs, snap, dec, fee, ev, indexVars, gradVars>>

LedgerUpsertPosition ==
    /\ prog = "ledger"
    /\ calls < MaxLedgerCalls
    /\ Len(objs) < MaxObjs
    /\ \E token \in TokenAddrs, curve \in CurveAddrs :
          LET r == upsertPosition(map, objs, Position(token, curve, 7, 4))
          IN  /\ map' = r.map
              /\ objs' = r.objs
              /\ led' = [led EXCEPT ![keyOf(token)] = NoEntries]
    /\ calls' = calls + 1
    /\ UNCHANGED <<prog, snap, dec, fee, ev, indexVars, gradVars>>

LedgerClearPositions ==
    /\ prog = "ledger"
    /\ calls < MaxLedgerCalls
    /\ map' = clearPositions(map)
    /\ led' = [k \in Keys |-> NoEntries]
    /\ calls' = calls + 1
    /\ UNCHANGED <<prog, objs, snap, dec, fee, ev, indexVars, gradVars>>

LedgerAllPositions ==
    /\ prog = "ledger"
    /\ calls < MaxLedgerCalls
    /\ snap' = allPositions(map)
    /\ calls' = calls + 1
    /\ UNCHANGED <<prog, map, objs, led, dec, fee, ev, indexVars, gradVars>>

NextLedger ==
    \/ LedgerOnBuy
    \/ LedgerRemovePosition
    \/ LedgerUpsertPosition
    \/ LedgerClearPositions
    \/ LedgerAllPositions

SpecLedger == InitLedger /\ [][NextLedger]_vars

----------------------------------------------------------------------------
(* C7: after any sequence of onBuy calls on one asset with no removal in    *)
(* between, the position's totalCostWei is the sum of the cost deltas, its *)
(* firstSeenBlock the minimum of the heights and its curve the last one     *)
(* passed.                                                                  *)

C7_RecordEntryAccumulates ==
    \A k \in Keys :
        led[k].tracked =>
            /\ MapHas(map, k)
            /\ objs[MapGet(map, k)].totalCostWei = led[k].sum
            /\ objs[MapGet(map, k)].firstSeenBlock = led[k].minH
            /\ objs[MapGet(map, k)].curve = led[k].last

\* Two later buys of one asset, the second at a lower height than the first
\* entry and on another curve.
C7_Witness ==
    \E k \in Keys :
        /\ led[k].tracked
        /\ led[k].n = 2
        /\ led[k].firstH = 5
        /\ led[k].sum = 105
        /\ MapHas(map, k)
        /\ objs[MapGet(map, k)].token = <<65>>
        /\ objs[MapGet(map, k)].firstSeenBlock = 3
        /\ objs[MapGet(map, k)].curve = <<100>>
        /\ objs[MapGet(map, k)].totalCostWei = 105

----------------------------------------------------------------------------
(* Sell loop, the decision gate (positions.ts:193-215 and the earlier      *)
(* sell loop, sell.ts:129-138).  cfg is the loop's Cfg, with the profit    *)
(* floor MIN_PROFIT_WEI read from the environment beside it.  Number() of  *)
(* a bigint below 2^53 is that integer, and every value here is.           *)

DefaultEstGas == 120000

sellGasWei(estGas, maxFeePerGas) == estGas * maxFeePerGas

netKasWei(kasOut, estGas, maxFeePerGas) == kasOut - sellGasWei(estGas, maxFeePerGas)

denom(totalCostWei) == IF totalCostWei = 0 THEN 1 ELSE totalCostWei

pnlBps(net, totalCostWei) ==
    TruncDiv((net - totalCostWei) * 10000, denom(totalCostWei))

useSL(cfg) == cfg.hardStopBps > 0

\* The mutant of needWei: the threshold without the take-profit margin.
needWeiFlat(totalCostWei, cfg) == totalCostWei + cfg.minProfitWei

needWei(totalCostWei, cfg) ==
    TruncDiv(totalCostWei * (10000 + cfg.takeProfitBps), 10000) + cfg.minProfitWei

shouldTP(net, totalCostWei, cfg) == net >= needWei(totalCostWei, cfg)

shouldSL(net, totalCostWei, cfg) ==
    useSL(cfg) /\ pnlBps(net, totalCostWei) <= -cfg.hardStopBps

\* positions.ts:208-215: "skip" (no trigger), "blocked" (negative P&L with
\* the stop-loss off), or "sell" (go on to the critical section).
Gate(net, totalCostWei, cfg) ==
    IF ~shouldTP(net, totalCostWei, cfg) /\ ~shouldSL(net, totalCostWei, cfg)
    THEN "skip"
    ELSE IF ~useSL(cfg) /\ pnlBps(net, totalCostWei) < 0
    THEN "blocked"
    ELSE "sell"

\* sell.ts:136-138, the earlier sell loop.
shouldTP_sellts(net, totalCostWei, cfg) ==
    pnlBps(net, totalCostWei) >= cfg.takeProfitBps

shouldSL_sellts(net, totalCostWei, cfg) ==
    pnlBps(net, totalCostWei) <= -cfg.hardStopBps

Gate_sellts(net, totalCostWei, cfg) ==
    IF ~shouldTP_sellts(net, totalCostWei, cfg) /\ ~shouldSL_sellts(net, totalCostWei, cfg)
    THEN "skip"
    ELSE "sell"

(* The gate applied to one set of inputs *)

GateCosts == {0, 3, 100}
GateQuotes == {0, 3, 4, 60, 90, 100, 119, 120, 121, 125, 130}
GateEstGas == {1, 5}
GateFees == {0, 1}
GateTakeProfits == {0, 2000, 2500}
GateHardStops == {0, 1000, 4000}
GateFloors == {0, 2}

GateCfgs ==
    [slippageBps : {300}, takeProfitBps : GateTakeProfits,
     hardStopBps : GateHardStops, minHoldBlocks : {2}, minProfitWei : GateFloors]

InitDecide ==
    /\ prog = "gate"
    /\ LedgerIdle
    /\ led = [k \in Keys |-> NoEntries]
    /\ fee = NoFee
    /\ ev = NoEv
    /\ IndexOff
    /\ GradOff
    /\ \E totalCostWei \in GateCosts, kasOut \in GateQuotes, estGas \in GateEstGas,
          maxFeePerGas \in GateFees, cfg \in GateCfgs :
          dec = [phase |-> "in", totalCostWei |-> totalCostWei, cfg |-> cfg,
                 net |-> netKasWei(kasOut, estGas, maxFeePerGas)]

Decided(loop, d, tp, sl, outcome) ==
    [phase |-> "out", loop |-> loop, totalCostWei |-> d.totalCostWei,
     cfg |-> d.cfg, net |-> d.net,
     pnlBps |-> pnlBps(d.net, d.totalCostWei),
     shouldTP |-> tp, shouldSL |-> sl, outcome |-> outcome]

DecideGate ==
    /\ prog = "gate"
    /\ dec.phase = "in"
    /\ dec' = Decided("positions.ts", dec,
                      shouldTP(dec.net, dec.totalCostWei, dec.cfg),
                      shouldSL(dec.net, dec.totalCostWei, dec.cfg),
                      Gate(dec.net, dec.totalCostWei, dec.cfg))
    /\ UNCHANGED <<prog, ledgerVars, fee, ev, indexVars, gradVars>>

DecideGate_sellts ==
    /\ prog = "gate"
    /\ dec.phase = "in"
    /\ dec' = Decided("sell.ts", dec,
                      shouldTP_sellts(dec.net, dec.totalCostWei, dec.cfg),
                      shouldSL_sellts(dec.net, dec.totalCostWei, dec.cfg),
                      Gate_sellts(dec.net, dec.totalCostWei, dec.cfg))
    /\ UNCHANGED <<prog, ledgerVars, fee, ev, indexVars, gradVars>>

NextDecide == DecideGate \/ DecideGate_sellts

SpecDecide == InitDecide /\ [][NextDecide]_vars

----------------------------------------------------------------------------
(* C2: with hardStopBps = 0 the stop-loss trigger is false for every P&L   *)
(* value, and no sell is started at a loss.                                *)

C2_NoStopLossWhenDisabled ==
    (dec.phase = "out" /\ dec.cfg.hardStopBps = 0) =>
        /\ ~dec.shouldSL
        /\ (dec.pnlBps < 0 => dec.outcome # "sell")

----------------------------------------------------------------------------
(* C10: in either sell loop take-profit fires exactly when the net proceeds  *)
(* reach costBasis * (10000 + takeProfitBps) / 10000, truncated, plus the   *)
(* configured profit floor (only positions.ts has one, MIN_PROFIT_WEI);     *)
(* with cost 100, 2000 bps and no floor it fires at 125 and at 120 and not  *)
(* at 119.                                                                  *)

C10_TakeProfitThreshold ==
    dec.phase = "out" =>
        LET floor == IF dec.loop = "positions.ts" THEN dec.cfg.minProfitWei ELSE 0
        IN  /\ dec.shouldTP <=>
                  dec.net >= ((dec.totalCostWei * (10000 + dec.cfg.takeProfitBps))
                                  \div 10000) + floor
            /\ (dec.totalCostWei = 100 /\ dec.cfg.takeProfitBps = 2000 /\ floor = 0) =>
                  /\ dec.net \in {120, 125} => dec.shouldTP
                  /\ dec.net = 119 => ~dec.shouldTP

----------------------------------------------------------------------------
(* gradbot.ts: the graduation bot, a program of its own.                   *)
(*                                                                         *)
(* Every await is a step.  simulateContract is called without a nonce      *)
(* (gradbot.ts:96-98), so sim.request carries none and req.nonce is        *)
(* undefined (NoNonce); the wallet then numbers the transaction with the   *)
(* account's pending transaction count at the node.                        *)

MaxCurveEvents == 1

\* The tick() calls that may be under way together.
GradTickIds == {1, 2}

\* The defaults of the environment variables GAS_TIP_BPS and MAX_REPLACEMENTS.
TIP_BPS == 2000
MAX_REPLACEMENTS == 3

FeeQuotes == {[mp |-> 0, mf |-> 10000], [mp |-> 1000, mf |-> 10000]}
ProgressValues == {5000, 10000}
GradTokens == {<<98>>}
GradCurves == {<<99>>}

NoNonce == -1

\* The mutant of bump: the increment rounded up.
bumpCeil(x, tipBps) == x + ((x * tipBps + 9999) \div 10000)

\* gradbot.ts:92, with TIP_BPS a parameter.
bump(x, tipBps) == x + TruncDiv(x * tipBps, 10000)

\* { curve, token }, graduated being undefined.  claimed is history: a
\* graduate() call for the entry has returned true (gradbot.ts:137).
CurveInfo(curve, token) ==
    [curve |-> curve, token |-> token, graduated |-> FALSE, claimed |-> FALSE]

ActiveIndex(a, curve) ==
    IF \E i \in 1..Len(a) : a[i].k = curve
    THEN CHOOSE i \in 1..Len(a) : a[i].k = curve
    ELSE 0

\* active.set(curve, { curve, token }): a new object; a known curve keeps
\* its place in the iteration order.
activeSet(a, h, curve, token) ==
    LET o == Len(h) + 1
        i == ActiveIndex(a, curve)
    IN  [active |-> IF i # 0 THEN [a EXCEPT ![i] = [k |-> curve, o |-> o]]
                    ELSE Append(a, [k |-> curve, o |-> o]),
         infos |-> Append(h, CurveInfo(curve, token))]

\* What canGraduate() was answered by the chain (history, kept while the
\* jitter timer runs).
NoReads == [graduatable |-> "none", threw |-> FALSE, bps |-> 0]

\* A tick() call.  bids is history: the transactions the current graduate()
\* call has sent.  caught is history: what the wait threw, while the catch
\* of gradbot.ts:111 sends the replacement.  ret is set while graduate() is
\* being left.
IdleTick ==
    [pc |-> "idle", i |-> 0, info |-> 0, mp |-> 0, mf |-> 0, nonce |-> NoNonce,
     tries |-> 0, simOk |-> FALSE, bids |-> <<>>, caught |-> "none",
     ret |-> "none", of |-> 0, reads |-> NoReads]

\* tick(), from the loop head at entry `from` of `active` to its next await
\* (or to the end of the loop): entries marked graduated are skipped.
tickFrom(tk, from, a, h) ==
    LET todo == {j \in from..Len(a) : ~h[a[j].o].graduated}
    IN  IF todo = {}
        THEN [tk EXCEPT !.pc = "done", !.i = 0, !.info = 0]
        ELSE LET j == CHOOSE x \in todo : \A y \in todo : x <= y
             IN  [tk EXCEPT !.pc = "isGraduated", !.i = j, !.info = a[j].o]

\* The nonce of a transaction the wallet sends: req.nonce when defined,
\* else the pending count of the account.
TxNonce(reqNonce, count) == IF reqNonce = NoNonce THEN count ELSE reqNonce

Bid(tk, count) ==
    [nonce |-> TxNonce(tk.nonce, count), mp |-> tk.mp, mf |-> tk.mf,
     sim |-> tk.simOk, awaited |-> FALSE, status |-> "none"]

\* graduate() is left, for the curve of entry tk.info: its locals are gone.
Returned(tk, ret) ==
    [tk EXCEPT !.mp = 0, !.mf = 0, !.nonce = NoNonce, !.tries = 0, !.simOk = FALSE,
               !.caught = "none", !.ret = ret, !.of = tk.info]

\* A step of tick() number t, to tk.
GradStep(t, tk) ==
    /\ gt' = [gt EXCEPT ![t] =
                 IF tk.ret = "none" THEN tk
                 ELSE [tk EXCEPT !.bids = <<>>, !.ret = "none", !.of = 0]]
    /\ ev' = IF tk.ret = "none" THEN NoEv
             ELSE [who |-> "graduate", t |-> t, curve |-> infos[tk.of].curve,
                   ret |-> tk.ret, bids |-> tk.bids]

InitGrad ==
    /\ prog = "gradbot"
    /\ LedgerIdle
    /\ led = [k \in Keys |-> NoEntries]
    /\ dec = NoDec
    /\ fee = NoFee
    /\ ev = NoEv
    /\ IndexOff
    /\ gmain = "backfill"
    /\ active = <<>>
    /\ infos = <<>>
    /\ gt = [t \in GradTickIds |-> IdleTick]
    /\ txCount = 0
    /\ gevents = 0

\* main(): discoverBackfill() then startFactoryWatch() and watchBlocks().
\* The two reads of discoverBackfill are one step; a failure ends main().
GradBackfill ==
    /\ prog = "gradbot"
    /\ gmain = "backfill"
    /\ \/ /\ gmain' = "exited"
          /\ UNCHANGED <<active, infos>>
       \/ /\ gmain' = "watching"
          /\ UNCHANGED <<active, infos>>
       \/ \E curve \in GradCurves, token \in GradTokens :
             LET r == activeSet(active, infos, curve, token)
             IN  /\ gmain' = "watching"
                 /\ active' = r.active
                 /\ infos' = r.infos
    /\ ev' = NoEv
    /\ UNCHANGED <<prog, ledgerVars, dec, fee, indexVars, gt, txCount, gevents>>

\* startFactoryWatch.onLogs with one CurveCreated log.
GradOnLogs ==
    /\ prog = "gradbot"
    /\ gmain = "watching"
    /\ gevents < MaxCurveEvents
    /\ \E curve \in GradCurves, token \in GradTokens :
          LET r == activeSet(active, infos, curve, token)
          IN  /\ active' = r.active
              /\ infos' = r.infos
    /\ gevents' = gevents + 1
    /\ ev' = NoEv
    /\ UNCHANGED <<prog, ledgerVars, dec, fee, indexVars, gmain, gt, txCount>>

\* watchBlocks.onBlock: a new tick() starts, whatever the earlier ones do.
GradOnBlock ==
    /\ prog = "gradbot"
    /\ gmain = "watching"
    /\ \E t \in GradTickIds :
          /\ gt[t].pc = "idle"
          /\ \A u \in GradTickIds : u < t => gt[u].pc # "idle"
          /\ GradStep(t, tickFrom(IdleTick, 1, active, infos))
    /\ UNCHANGED <<prog, ledgerVars, dec, fee, indexVars, gmain, active, infos, txCount, gevents>>

\* isGraduated(curve) has answered (a failed read answers false).
GradIsGraduated ==
    /\ prog = "gradbot"
    /\ \E t \in GradTickIds :
          /\ gt[t].pc = "isGraduated"
          /\ \/ /\ infos' = [infos EXCEPT ![gt[t].info].graduated = TRUE]
                /\ GradStep(t, tickFrom(gt[t], gt[t].i + 1, active, infos'))
             \/ /\ GradStep(t, [gt[t] EXCEPT !.pc = "canGraduate"])
                /\ UNCHANGED infos
    /\ UNCHANGED <<prog, ledgerVars, dec, fee, indexVars, gmain, active, txCount, gevents>>

\* canGraduate(curve): { ok, progress } from what the isGraduatable read and,
\* when that is not true, the progressBps read answer (a read may fail).
\* The two reads are two awaits.
ProgressReads ==
    {[threw |-> TRUE, bps |-> 0]} \cup {[threw |-> FALSE, bps |-> v] : v \in ProgressValues}

canGraduate(graduatable, progress) ==
    IF graduatable = "true" THEN [ok |-> TRUE, progress |-> 10000]
    ELSE IF ~progress.threw THEN [ok |-> progress.bps >= 10000, progress |-> progress.bps]
    ELSE [ok |-> FALSE, progress |-> 0]

\* canGraduate(curve), gradbot.ts:77-79: the isGraduatable read has
\* answered.  True returns { ok, progress: 10000n } and tick() sets the
\* jitter timer; otherwise progressBps is asked for.
GradIsGraduatable ==
    /\ prog = "gradbot"
    /\ \E t \in GradTickIds :
          /\ gt[t].pc = "canGraduate"
          /\ \E graduatable \in {"true", "false", "throws"} :
                GradStep(t, [gt[t] EXCEPT
                                !.pc = IF graduatable = "true" THEN "jitter"
                                       ELSE "progressBps",
                                !.reads = [NoReads EXCEPT !.graduatable = graduatable]])
    /\ UNCHANGED <<prog, ledgerVars, dec, fee, indexVars, gmain, active, infos, txCount, gevents>>

\* canGraduate(curve), gradbot.ts:80-84: the progressBps read has answered.
\* When ok, the jitter timer is set; else tick() goes on to the next curve.
GradCanGraduate ==
    /\ prog = "gradbot"
    /\ \E t \in GradTickIds :
          /\ gt[t].pc = "progressBps"
          /\ \E progress \in ProgressReads :
                GradStep(t, IF canGraduate(gt[t].reads.graduatable, progress).ok
                            THEN [gt[t] EXCEPT !.pc = "jitter",
                                               !.reads.threw = progress.threw,
                                               !.reads.bps = progress.bps]
                            ELSE tickFrom([gt[t] EXCEPT !.reads = NoReads],
                                          gt[t].i + 1, active, infos))
    /\ UNCHANGED <<prog, ledgerVars, dec, fee, indexVars, gmain, active, infos, txCount, gevents>>

\* The jitter timer fires: graduate(curve) starts and asks for the fees.
GradJitter ==
    /\ prog = "gradbot"
    /\ \E t \in GradTickIds :
          /\ gt[t].pc = "jitter"
          /\ GradStep(t, [gt[t] EXCEPT !.pc = "fees", !.reads = NoReads])
    /\ UNCHANGED <<prog, ledgerVars, dec, fee, indexVars, gmain, active, infos, txCount, gevents>>

\* graduate() ends without a value: the error reaches tick()'s catch, and
\* tick() goes on to the next curve.
graduateThrows(tk, a, h) == tickFrom(Returned(tk, "threw"), tk.i + 1, a, h)

\* graduate() returns false: tick() goes on to the next curve.
graduateGivesUp(tk, a, h) == tickFrom(Returned(tk, "false"), tk.i + 1, a, h)

\* estimateFeesPerGas has answered: both fees are bumped once and the call
\* is simulated.
GradFees ==
    /\ prog = "gradbot"
    /\ \E t \in GradTickIds :
          /\ gt[t].pc = "fees"
          /\ \/ \E fees \in FeeQuotes :
                   GradStep(t, [gt[t] EXCEPT !.pc = "simulate",
                                             !.mp = bump(fees.mp, TIP_BPS),
                                             !.mf = bump(fees.mf, TIP_BPS)])
             \/ GradStep(t, graduateThrows(gt[t], active, infos))
    /\ UNCHANGED <<prog, ledgerVars, dec, fee, indexVars, gmain, active, infos, txCount, gevents>>

\* The mutant of gradSimulated: the request is sent whatever the answer.
gradSimulatedAnyway(tk, ok, a, h) == [tk EXCEPT !.pc = "send", !.simOk = ok]

\* simulateContract has answered: on success the request is sent, a
\* rejection ends graduate() with the error.
gradSimulated(tk, ok, a, h) ==
    IF ok THEN [tk EXCEPT !.pc = "send", !.simOk = TRUE]
    ELSE tickFrom(Returned(tk, "rejected"), tk.i + 1, a, h)

GradSimulate ==
    /\ prog = "gradbot"
    /\ \E t \in GradTickIds :
          /\ gt[t].pc = "simulate"
          /\ \E ok \in BOOLEAN :
                GradStep(t, gradSimulated(gt[t], ok, active, infos))
    /\ UNCHANGED <<prog, ledgerVars, dec, fee, indexVars, gmain, active, infos, txCount, gevents>>

\* After a send, the head of `while (tries < MAX_REPLACEMENTS)`: wait for
\* the receipt of the last hash, or give up.
afterSend(tk, a, h) ==
    IF tk.tries < MAX_REPLACEMENTS
    THEN [tk EXCEPT !.pc = "wait"]
    ELSE graduateGivesUp(tk, a, h)

\* wal.writeContract(req) has answered, the first time (gradbot.ts:101) or
\* for a replacement (gradbot.ts:116): the transaction is out, or the send
\* failed and graduate() throws.
GradSend ==
    /\ prog = "gradbot"
    /\ \E t \in GradTickIds :
          /\ gt[t].pc \in {"send", "resend"}
          /\ \/ /\ GradStep(t, afterSend([gt[t] EXCEPT
                                               !.bids = Append(@, Bid(gt[t], txCount)),
                                               !.caught = "none"],
                                           active, infos))
                /\ txCount' = IF gt[t].nonce = NoNonce THEN txCount + 1 ELSE txCount
             \/ /\ GradStep(t, graduateThrows(gt[t], active, infos))
                /\ UNCHANGED txCount
    /\ UNCHANGED <<prog, ledgerVars, dec, fee, indexVars, gmain, active, infos, gevents>>

\* gradbot.ts:112-116: the catch of the wait bumps both fees and sends the
\* request again, `nonce: req.nonce` leaving the nonce as it was.
replace(tk) ==
    [tk EXCEPT !.pc = "resend",
               !.tries = @ + 1,
               !.mp = bump(@, TIP_BPS),
               !.mf = bump(@, TIP_BPS),
               !.nonce = tk.nonce]

\* waitForTransactionReceipt has answered: with a receipt, of either
\* status, graduate() returns true and tick() marks the curve; with any
\* error, replace.
GradWait ==
    /\ prog = "gradbot"
    /\ \E t \in GradTickIds :
          /\ gt[t].pc = "wait"
          /\ \E out \in {"success", "reverted", "timeout", "error"} :
                LET n == Len(gt[t].bids)
                    tk == [gt[t] EXCEPT !.bids[n].awaited = TRUE,
                                        !.bids[n].status =
                                            IF out \in {"success", "reverted"}
                                            THEN out ELSE "none"]
                IN  IF out \in {"success", "reverted"}
                    THEN /\ infos' = [infos EXCEPT ![tk.info].graduated = TRUE,
                                                   ![tk.info].claimed = TRUE]
                         /\ GradStep(t, tickFrom(Returned(tk, "true"),
                                                  tk.i + 1, active, infos'))
                    ELSE /\ GradStep(t, [replace(tk) EXCEPT !.caught = out])
                         /\ UNCHANGED infos
    /\ UNCHANGED <<prog, ledgerVars, dec, fee, indexVars, gmain, active, txCount, gevents>>

NextGrad ==
    \/ GradBackfill
    \/ GradOnLogs
    \/ GradOnBlock
    \/ GradIsGraduated
    \/ GradIsGraduatable
    \/ GradCanGraduate
    \/ GradJitter
    \/ GradFees
    \/ GradSimulate
    \/ GradSend
    \/ GradWait

SpecGrad == InitGrad /\ [][NextGrad]_vars

----------------------------------------------------------------------------
(* index.ts: the sniper.  main() starts the sell loop (startSellLoop, of    *)
(* positions.ts:139-278 or of processes/sell.ts:60-191) and the buy watcher *)
(* (sell.ts:209-429), which share the ledger.  Every await is a step.       *)
(* Amounts are in units of 0.01 KAS.                                        *)

MaxBuyLogs == 1

\* The logs delivered to the buy watcher when the sell loop is not started.
MaxWatcherLogs == 3

\* The onBlock calls of the sell loop that may be under way together.
SellTickIds == {1, 2}

\* (1n << 256n) - 1n, beyond the integers of TLC: any amount above
\* every balance compares as it does.
MAX_UINT256 == 1000000

\* A read that has not answered, or answered undefined.
NoRead == -1

\* The two declarations of startSellLoop: the loop of positions.ts:139-278
\* and the loop of processes/sell.ts:60-191, which index.ts:9 imports.
SellLoops == {"positions.ts", "sell.ts"}

\* loop is the declaration of startSellLoop that runs (MIN_PROFIT_WEI is of
\* positions.ts only).
SellCfgs ==
    {[enabled |-> TRUE, loop |-> l, slippageBps |-> 300, takeProfitBps |-> 2000,
      hardStopBps |-> hs, minHoldBlocks |-> 2, minProfitWei |-> 0] :
        hs \in {0, 1000}, l \in SellLoops}

\* appConfig.sell.enabled false: main() starts no sell loop.
WatcherCfgs ==
    {[enabled |-> FALSE, loop |-> "none", slippageBps |-> 300, takeProfitBps |-> 2000,
      hardStopBps |-> 0, minHoldBlocks |-> 2, minProfitWei |-> 0]}

\* block.number of a delivered block; 0 stands for a block without one.
TickHeights == {0, 3, 5}
Balances == {0, 40, 80}
Allowances == {0, 50, MAX_UINT256}
SellQuotes == {0, 60, 130}
GasHints == {5, NoRead}
SellFeeValues == {0, 1}
\* What the catch tells apart in the message of an error: 'insufficient
\* allowance', 'transfer amount exceeds balance', anything else.  A failed
\* read or receipt wait is of the last kind; a failed simulation or send is
\* of any.
ErrKinds == {"allowance", "balance", "other"}

\* One sent transaction of an evaluation (history).  For a sell, quote is the
\* kasOut2 its minOut was computed from and cost the position's totalCostWei
\* when it was sent.
SellTx(kind, amount, minOut, sim, quote, cost) ==
    [kind |-> kind, amount |-> amount, minOut |-> minOut, sim |-> sim, rcpt |-> FALSE,
     quote |-> quote, cost |-> cost]

NoExit == [why |-> "none"]

\* An onBlock call.  txs is history: the transactions the current
\* evaluation has sent; cost2 is history too, the totalCostWei of the
\* position when the balance was read again.  exit is set while an
\* evaluation is being left.
IdleSell ==
    [pc |-> "idle", blockNumber |-> 0, positions |-> <<>>, i |-> 0, pos |-> 0,
     key |-> <<>>, bal |-> 0, kasOut |-> 0, estGas |-> 0, cur |-> NoRead, bal2 |-> 0,
     kasOut2 |-> 0, minOut |-> 0, simOk |-> FALSE, cost2 |-> 0, txs |-> <<>>,
     exit |-> NoExit]

\* positions.ts:152-158, from entry `from` of the snapshot: guarded keys are
\* passed over, and the first other position has its balance asked for.
sellFrom(tk, from, h, fl) ==
    LET todo == {j \in from..Len(tk.positions) : keyOf(h[tk.positions[j]].token) \notin fl}
    IN  IF todo = {}
        THEN [tk EXCEPT !.pc = "done", !.blockNumber = 0, !.positions = <<>>,
                        !.i = 0, !.pos = 0, !.key = <<>>]
        ELSE LET j == CHOOSE x \in todo : \A y \in todo : x <= y
             IN  [tk EXCEPT !.pc = "balance", !.i = j, !.pos = tk.positions[j],
                            !.key = keyOf(h[tk.positions[j]].token)]

\* An evaluation is left for reason `why`, the ledger being m2 and the
\* guard fl2 once its finally has run.
exited(tk, why, m2, fl2, h) ==
    sellFrom([tk EXCEPT !.bal = 0, !.kasOut = 0, !.estGas = 0, !.cur = NoRead, !.bal2 = 0,
                        !.kasOut2 = 0, !.minOut = 0, !.simOk = FALSE, !.cost2 = 0,
                        !.exit = [why |-> why, key |-> tk.key,
                                  removed |-> ~MapHas(m2, tk.key),
                                  released |-> tk.key \notin fl2]],
             tk.i + 1, h, fl2)

\* The mutant of SellLeave: no finally, the key stays where it is.
SellLeaveHolding(t, tk, why, m2) ==
    /\ map' = m2
    /\ inFlight' = inFlight
    /\ LET x == exited(tk, why, m2, inFlight', objs)
       IN  /\ st' = [st EXCEPT ![t] = [x EXCEPT !.txs = <<>>, !.exit = NoExit]]
           /\ ev' = [who |-> "sell", t |-> t, exit |-> x.exit, txs |-> x.txs]

\* positions.ts:264-266: every way out of the try block runs the finally.
SellLeave(t, tk, why, m2) ==
    /\ map' = m2
    /\ inFlight' = inFlight \ {tk.key}
    /\ LET x == exited(tk, why, m2, inFlight', objs)
       IN  /\ st' = [st EXCEPT ![t] = [x EXCEPT !.txs = <<>>, !.exit = NoExit]]
           /\ ev' = [who |-> "sell", t |-> t, exit |-> x.exit, txs |-> x.txs]

\* positions.ts:254-263, for an error thrown at step `at` whose message is
\* of kind `kind`; the catch of sell.ts:168-173 removes nothing.
SellCatch(t, tk, at, kind) ==
    SellLeave(t, tk, at,
              IF kind = "balance" /\ scfg.loop = "positions.ts"
              THEN removePosition(map, objs[tk.pos].token)
              ELSE map)

SellStay(t, tk) ==
    /\ st' = [st EXCEPT ![t] = tk]
    /\ ev' = NoEv
    /\ UNCHANGED <<map, inFlight>>

UnderWay(tk) == tk.pc \notin {"idle", "done"}

\* sim?.request?.gas ?? 120_000n, and 120_000n when the simulation throws.
estGasOf(hint) == IF hint = NoRead THEN DefaultEstGas ELSE hint

\* positions.ts:123-133: what ensureAllowance does next, given the allowance read.
allowanceNextNoReset(current, required) ==
    IF current >= required THEN "return" ELSE "approveMax"

allowanceNext(current, required) ==
    IF current >= required THEN "return"
    ELSE IF current > 0 THEN "approve0"
    ELSE "approveMax"

minOutOf(kasOut, cfg) == TruncDiv(kasOut * (10000 - cfg.slippageBps), 10000)

\* The arguments of the sell that is sent, from what the reads of an
\* evaluation answered: bal and kasOut before the trigger, bal2 and kasOut2
\* what balanceOf and previewSellTokens answer once the key is in inFlight.
\* positions.ts:224-247: sellTokens(bal2, minOut), minOut from kasOut2.
sellArgs(bal, kasOut, bal2, kasOut2, cfg) ==
    [amount |-> bal2, minOut |-> minOutOf(kasOut2, cfg)]

\* sell.ts:146-163, the earlier sell loop: sellTokens(bal, minOut), minOut
\* from kasOut; nothing is read again.
sellArgs_sellts(bal, kasOut, bal2, kasOut2, cfg) ==
    [amount |-> bal, minOut |-> minOutOf(kasOut, cfg)]

\* ensureAllowance has returned.  positions.ts:224: the balance is read
\* again; sell.ts:146-150: minOut is computed and the sell is simulated.
afterAllowance(tk) ==
    IF scfg.loop = "sell.ts"
    THEN [tk EXCEPT !.pc = "simulate",
                    !.minOut = sellArgs_sellts(tk.bal, tk.kasOut, 0, 0, scfg).minOut]
    ELSE [tk EXCEPT !.pc = "balance2"]

\* watchBlocks.onBlock (positions.ts:145-156): a new call starts, whatever
\* the earlier ones do.
SellOnBlock ==
    /\ prog = "index"
    /\ scfg.enabled
    /\ \E t \in SellTickIds, b \in TickHeights :
          /\ st[t].pc = "idle"
          /\ \A u \in SellTickIds : u < t => st[u].pc # "idle"
          /\ \A u \in SellTickIds : UnderWay(st[u]) => st[u].blockNumber < b \/ b = 0
          /\ st' = [st EXCEPT ![t] =
                IF b = 0 THEN [IdleSell EXCEPT !.pc = "done"]
                ELSE sellFrom([IdleSell EXCEPT !.blockNumber = b,
                                               !.positions = allPositions(map)],
                              1, objs, inFlight)]
    /\ ev' = NoEv
    /\ UNCHANGED <<prog, ledgerVars, dec, fee, scfg, inFlight, bw, blogs, gradVars>>

\* The mutant of belowMinHold: a position is held one block longer.
belowMinHoldLate(blockNumber, firstSeenBlock, cfg) ==
    blockNumber - firstSeenBlock <= cfg.minHoldBlocks

\* positions.ts:165, the min-hold test.
belowMinHold(blockNumber, firstSeenBlock, cfg) ==
    blockNumber - firstSeenBlock < cfg.minHoldBlocks

\* 1) balanceOf has answered; 2) min hold.  On a zero balance positions.ts:162
\* removes the position, sell.ts:85 goes on to the next.
SellBalance ==
    /\ prog = "index"
    /\ \E t \in SellTickIds :
          /\ st[t].pc = "balance"
          /\ LET tk == st[t]
                 pos == objs[tk.pos]
             IN  \/ SellCatch(t, tk, "balance_failed", "other")
                 \/ \E bal \in Balances :
                       IF bal = 0
                       THEN SellLeave(t, tk, "balance_zero",
                                      IF scfg.loop = "positions.ts"
                                      THEN removePosition(map, pos.token)
                                      ELSE map)
                       ELSE IF belowMinHold(tk.blockNumber, pos.firstSeenBlock, scfg)
                       THEN SellLeave(t, tk, "min_hold", map)
                       ELSE SellStay(t, [tk EXCEPT !.pc = "quote", !.bal = bal])
    /\ UNCHANGED <<prog, objs, snap, led, calls, dec, fee, scfg, bw, blogs, gradVars>>

\* 3) previewSellTokens(bal) has answered.
SellQuote ==
    /\ prog = "index"
    /\ \E t \in SellTickIds :
          /\ st[t].pc = "quote"
          /\ \/ SellLeave(t, st[t], "no_quote", map)
             \/ \E kasOut \in SellQuotes :
                   IF kasOut = 0
                   THEN SellLeave(t, st[t], "quote_zero", map)
                   ELSE SellStay(t, [st[t] EXCEPT !.pc = "estimate", !.kasOut = kasOut])
    /\ UNCHANGED <<prog, objs, snap, led, calls, dec, fee, scfg, bw, blogs, gradVars>>

\* 5) P&L and the decision gate, with the fee known; 6) the key is added to
\* inFlight and ensureAllowance asks for the allowance.  The gate is that of
\* positions.ts:197-215 or of sell.ts:132-138.
SellDecide(t, tk, maxFeePerGas) ==
    LET net == netKasWei(tk.kasOut, tk.estGas, maxFeePerGas)
        cost == objs[tk.pos].totalCostWei
        g == IF scfg.loop = "sell.ts" THEN Gate_sellts(net, cost, scfg)
             ELSE Gate(net, cost, scfg)
    IN  IF g = "sell"
        THEN /\ inFlight' = inFlight \cup {tk.key}
             /\ st' = [st EXCEPT ![t] =
                          [tk EXCEPT !.pc = "allowance",
                                     !.estGas = 0,
                                     !.kasOut = IF scfg.loop = "sell.ts" THEN @ ELSE 0]]
             /\ ev' = NoEv
             /\ UNCHANGED map
        ELSE SellLeave(t, tk, g, map)

\* 4) simulateContract(sellTokens(bal, 1n)) has answered, or thrown:
\* estGas is known and estimateFeesPerGas is asked for.
SellEstimate ==
    /\ prog = "index"
    /\ \E t \in SellTickIds :
          /\ st[t].pc = "estimate"
          /\ \E hint \in GasHints :
                SellStay(t, [st[t] EXCEPT !.pc = "fees", !.estGas = estGasOf(hint)])
    /\ UNCHANGED <<prog, objs, snap, led, calls, dec, fee, scfg, bw, blogs, gradVars>>

\* estimateFeesPerGas has answered, or thrown: then getGasPrice is asked for.
SellFees ==
    /\ prog = "index"
    /\ \E t \in SellTickIds :
          /\ st[t].pc = "fees"
          /\ \/ SellStay(t, [st[t] EXCEPT !.pc = "gasPrice"])
             \/ \E maxFeePerGas \in SellFeeValues : SellDecide(t, st[t], maxFeePerGas)
    /\ UNCHANGED <<prog, objs, snap, led, calls, dec, fee, scfg, bw, blogs, gradVars>>

\* getGasPrice has answered, or thrown.
SellGasPrice ==
    /\ prog = "index"
    /\ \E t \in SellTickIds :
          /\ st[t].pc = "gasPrice"
          /\ \/ SellCatch(t, st[t], "fees_failed", "other")
             \/ \E maxFeePerGas \in SellFeeValues : SellDecide(t, st[t], maxFeePerGas)
    /\ UNCHANGED <<prog, objs, snap, led, calls, dec, fee, scfg, bw, blogs, gradVars>>

\* ensureAllowance: the allowance read has answered.
SellAllowance ==
    /\ prog = "index"
    /\ \E t \in SellTickIds :
          /\ st[t].pc = "allowance"
          /\ \/ SellCatch(t, st[t], "allowance_failed", "other")
             \/ \E current \in Allowances :
                   LET next == allowanceNext(current, st[t].bal)
                       tk == [st[t] EXCEPT !.cur = current]
                   IN  SellStay(t, IF next = "return" THEN afterAllowance(tk)
                                   ELSE [tk EXCEPT !.pc = next])
    /\ UNCHANGED <<prog, objs, snap, led, calls, dec, fee, scfg, bw, blogs, gradVars>>

\* ensureAllowance: writeContract(approve(spender, 0 or MAX_UINT256)) has answered.
SellApprove ==
    /\ prog = "index"
    /\ \E t \in SellTickIds :
          /\ st[t].pc \in {"approve0", "approveMax"}
          /\ \/ \E kind \in ErrKinds : SellCatch(t, st[t], "approve_failed", kind)
             \/ SellStay(t, [st[t] EXCEPT
                    !.pc = IF @ = "approve0" THEN "receipt0" ELSE "receiptMax",
                    !.txs = Append(@, SellTx("approve",
                                IF st[t].pc = "approve0" THEN 0 ELSE MAX_UINT256,
                                0, FALSE, 0, 0))])
    /\ UNCHANGED <<prog, objs, snap, led, calls, dec, fee, scfg, bw, blogs, gradVars>>

\* ensureAllowance: waitForTransactionReceipt of an approval has answered;
\* after the last one ensureAllowance returns.
SellApproveReceipt ==
    /\ prog = "index"
    /\ \E t \in SellTickIds :
          /\ st[t].pc \in {"receipt0", "receiptMax"}
          /\ \/ SellCatch(t, st[t], "approve_receipt_failed", "other")
             \/ LET tk == [st[t] EXCEPT !.txs[Len(st[t].txs)].rcpt = TRUE]
                IN  SellStay(t, IF tk.pc = "receipt0"
                                THEN [tk EXCEPT !.pc = "approveMax"]
                                ELSE afterAllowance(tk))
    /\ UNCHANGED <<prog, objs, snap, led, calls, dec, fee, scfg, bw, blogs, gradVars>>

\* positions.ts:224-228, 8) the second balanceOf has answered.
SellBalance2 ==
    /\ prog = "index"
    /\ \E t \in SellTickIds :
          /\ st[t].pc = "balance2"
          /\ \/ SellCatch(t, st[t], "balance2_failed", "other")
             \/ \E bal2 \in Balances :
                   IF bal2 = 0
                   THEN SellLeave(t, st[t], "balance2_zero",
                                  removePosition(map, objs[st[t].pos].token))
                   ELSE SellStay(t, [st[t] EXCEPT
                            !.pc = "quote2", !.cur = NoRead, !.bal2 = bal2,
                            !.cost2 = objs[st[t].pos].totalCostWei])
    /\ UNCHANGED <<prog, objs, snap, led, calls, dec, fee, scfg, bw, blogs, gradVars>>

\* positions.ts:231-236, 9) previewSellTokens(bal2) has answered.
SellQuote2 ==
    /\ prog = "index"
    /\ \E t \in SellTickIds :
          /\ st[t].pc = "quote2"
          /\ \/ SellCatch(t, st[t], "quote2_failed", "other")
             \/ \E kasOut2 \in SellQuotes :
                   IF kasOut2 = 0
                   THEN SellLeave(t, st[t], "quote2_zero", map)
                   ELSE SellStay(t, [st[t] EXCEPT
                            !.pc = "simulate",
                            !.kasOut2 = kasOut2,
                            !.minOut = sellArgs(st[t].bal, st[t].kasOut, st[t].bal2,
                                                kasOut2, scfg).minOut])
    /\ UNCHANGED <<prog, objs, snap, led, calls, dec, fee, scfg, bw, blogs, gradVars>>

\* The sellTokens call of an evaluation: positions.ts:239-247 or
\* sell.ts:150-163.
sellCall(tk) ==
    IF scfg.loop = "sell.ts"
    THEN sellArgs_sellts(tk.bal, tk.kasOut, tk.bal2, tk.kasOut2, scfg)
    ELSE sellArgs(tk.bal, tk.kasOut, tk.bal2, tk.kasOut2, scfg)

\* simulateContract(sellTokens(amount, minOut)) has answered.
SellSimulate ==
    /\ prog = "index"
    /\ \E t \in SellTickIds :
          /\ st[t].pc = "simulate"
          /\ \/ \E kind \in ErrKinds : SellCatch(t, st[t], "sim_rejected", kind)
             \/ SellStay(t, [st[t] EXCEPT !.pc = "send", !.cur = NoRead,
                                          !.simOk = TRUE])
    /\ UNCHANGED <<prog, objs, snap, led, calls, dec, fee, scfg, bw, blogs, gradVars>>

\* writeContract(sellTokens(amount, minOut)) has answered.  positions.ts:251
\* then waits for the receipt; sell.ts:165-167 logs the hash and the
\* evaluation ends.
SellSend ==
    /\ prog = "index"
    /\ \E t \in SellTickIds :
          /\ st[t].pc = "send"
          /\ \/ \E kind \in ErrKinds : SellCatch(t, st[t], "send_failed", kind)
             \/ LET tk == [st[t] EXCEPT
                              !.txs = Append(@, SellTx("sell", sellCall(st[t]).amount,
                                                sellCall(st[t]).minOut, st[t].simOk,
                                                IF scfg.loop = "sell.ts"
                                                THEN st[t].kasOut ELSE st[t].kasOut2,
                                                objs[st[t].pos].totalCostWei))]
                IN  IF scfg.loop = "sell.ts"
                    THEN SellLeave(t, tk, "sent", map)
                    ELSE SellStay(t, [tk EXCEPT !.pc = "receipt"])
    /\ UNCHANGED <<prog, objs, snap, led, calls, dec, fee, scfg, bw, blogs, gradVars>>

\* positions.ts:251-252: waitForTransactionReceipt of the sell has answered,
\* or has thrown: the call has no timeout option, so it gives up after the
\* client's own wait and its error goes to the catch like any other.
SellReceipt ==
    /\ prog = "index"
    /\ \E t \in SellTickIds :
          /\ st[t].pc = "receipt"
          /\ LET tk == [st[t] EXCEPT !.txs[Len(st[t].txs)].rcpt = TRUE]
             IN  \/ SellCatch(t, st[t], "receipt_failed", "other")
                 \/ SellCatch(t, st[t], "receipt_timeout", "other")
                 \/ SellLeave(t, tk, "sold", removePosition(map, objs[tk.pos].token))
                 \/ SellLeave(t, tk, "reverted", map)
    /\ UNCHANGED <<prog, objs, snap, led, calls, dec, fee, scfg, bw, blogs, gradVars>>

----------------------------------------------------------------------------
(* The arguments of the sell of the two loops, on the same reads.           *)

ArgBalances == Balances \ {0}
ArgQuotes == SellQuotes \ {0}
ArgSlippages == {100, 300, 500}

InitArgs ==
    /\ prog = "args"
    /\ LedgerIdle
    /\ led = [k \in Keys |-> NoEntries]
    /\ fee = NoFee
    /\ ev = NoEv
    /\ IndexOff
    /\ GradOff
    /\ \E bal \in ArgBalances, kasOut \in ArgQuotes, bal2 \in ArgBalances,
          kasOut2 \in ArgQuotes, slippageBps \in ArgSlippages :
          dec = [phase |-> "in", bal |-> bal, kasOut |-> kasOut, bal2 |-> bal2,
                 kasOut2 |-> kasOut2, cfg |-> [slippageBps |-> slippageBps]]

Sent(loop, d, args) ==
    [phase |-> "out", loop |-> loop, bal |-> d.bal, kasOut |-> d.kasOut,
     bal2 |-> d.bal2, kasOut2 |-> d.kasOut2, cfg |-> d.cfg,
     amount |-> args.amount, minOut |-> args.minOut]

SendSell ==
    /\ prog = "args"
    /\ dec.phase = "in"
    /\ dec' = Sent("positions.ts", dec,
                   sellArgs(dec.bal, dec.kasOut, dec.bal2, dec.kasOut2, dec.cfg))
    /\ UNCHANGED <<prog, ledgerVars, fee, ev, indexVars, gradVars>>

SendSell_sellts ==
    /\ prog = "args"
    /\ dec.phase = "in"
    /\ dec' = Sent("sell.ts", dec,
                   sellArgs_sellts(dec.bal, dec.kasOut, dec.bal2, dec.kasOut2, dec.cfg))
    /\ UNCHANGED <<prog, ledgerVars, fee, ev, indexVars, gradVars>>

NextArgs == SendSell \/ SendSell_sellts

SpecArgs == InitArgs /\ [][NextArgs]_vars

----------------------------------------------------------------------------
(* sell.ts:209-429, the buy watcher.  watchContractEvent calls onLogs for   *)
(* every batch of logs, whatever the earlier calls are doing.               *)

\* The onLogs calls that may be under way together.
BuyIds == {1, 2}

\* appConfig.bot
BuyCfg == [purchaseAmount |-> 100, slippageBps |-> 300, gasBribeBps |-> 1500]

\* The defaults of APPROVE_SELL_KAS ("0.22") and MAX_RT_GAS_SHARE ("0.35"),
\* in hundredths, and the gas assumed when estimateGas fails.
approveSellKas == 22
maxRtShare == 35
DefaultBuyGas == 110000

LogTokens == {<<65>>}
LogCurves == {<<99>>}

\* A delivered log: one the handler acts on, or one it passes over (another
\* event name, missing arguments, token details that do not parse).
BuyLogs ==
    {[valid |-> FALSE, token |-> <<>>, curve |-> <<>>]}
        \cup {[valid |-> TRUE, token |-> tok, curve |-> c] : tok \in LogTokens, c \in LogCurves}

BuyBatches(n) == UNION {[1..len -> BuyLogs] : len \in 1..n}

\* What randomizeAmount(purchaseAmount) may give.
PurchaseAmounts == {BuyCfg.purchaseAmount}
BuyEstimations == {1000}
BaseGasFees == {2}
BuyGasHints == {3, NoRead}
BuyGasCosts == {5}
ReceiptHeights == {1, 4}

\* The `while (true)` of sell.ts:319-337 keeps no count of its passes.  The
\* model counts the rejected simulations of a log modulo SimCountWrap, so
\* that each pass of the loop is a step.
SimCountWrap == 2

\* The onLogs call.  txs is history: the transactions sent for the current
\* log.  exit is set while the handler is leaving a log.
IdleBuy ==
    [pc |-> "idle", rest |-> <<>>, token |-> <<>>, curve |-> <<>>,
     purchaseAmount |-> 0, estimation |-> 0, mp |-> 0, mf |-> 0, minOut |-> 0,
     simOk |-> FALSE, rejected |-> 0, txs |-> <<>>, exit |-> "none"]

\* sell.ts:221-283: logs the handler passes over are skipped, and the first
\* other one has its purchase quoted.
buyFrom(b, logs) ==
    LET todo == {j \in 1..Len(logs) : logs[j].valid}
    IN  IF todo = {}
        THEN [b EXCEPT !.pc = "idle", !.rest = <<>>]
        ELSE LET j == CHOOSE x \in todo : \A y \in todo : x <= y
             IN  [b EXCEPT !.pc = "preview", !.rest = SubSeq(logs, j + 1, Len(logs)),
                           !.token = logs[j].token, !.curve = logs[j].curve]

\* The handler is done with a log, and goes on to the next.
buyNext(b, why) ==
    buyFrom([b EXCEPT !.token = <<>>, !.curve = <<>>, !.purchaseAmount = 0,
                      !.estimation = 0, !.rejected = 0, !.mp = 0, !.mf = 0,
                      !.minOut = 0, !.simOk = FALSE, !.exit = why],
            b.rest)

\* A step of onLogs call h, to b.
BuyStep(h, b) ==
    /\ bw' = [bw EXCEPT ![h] =
                 IF b.exit = "none" THEN b ELSE [b EXCEPT !.txs = <<>>, !.exit = "none"]]
    /\ ev' = IF b.exit = "none" THEN NoEv
             ELSE [who |-> "buy", h |-> h, exit |-> b.exit, txs |-> b.txs]

(* The round-trip guard of sell.ts:356-368 computes on JavaScript numbers   *)
(* (IEEE 754 doubles, round to nearest, ties to even).  Naturals beyond the *)
(* integers of TLC are sequences of limbs, least significant first, without *)
(* leading zero limbs; a double is m * 2^e with 2^52 <= m < 2^53, or zero.  *)

LimbBase == 32768

NatLimb(a, i) == IF i <= Len(a) THEN a[i] ELSE 0

RECURSIVE BigTrim(_)
BigTrim(a) ==
    IF a = <<>> THEN <<>>
    ELSE IF a[Len(a)] = 0 THEN BigTrim(SubSeq(a, 1, Len(a) - 1))
    ELSE a

RECURSIVE BigOfNat(_)
BigOfNat(n) == IF n = 0 THEN <<>> ELSE <<n % LimbBase>> \o BigOfNat(n \div LimbBase)

RECURSIVE BigAddFrom(_, _, _, _)
BigAddFrom(a, b, i, carry) ==
    IF i > Len(a) /\ i > Len(b)
    THEN IF carry = 0 THEN <<>> ELSE <<carry>>
    ELSE LET x == NatLimb(a, i) + NatLimb(b, i) + carry
         IN  <<x % LimbBase>> \o BigAddFrom(a, b, i + 1, x \div LimbBase)

BigAdd(a, b) == BigAddFrom(a, b, 1, 0)

\* a - b, for a >= b.
RECURSIVE BigSubFrom(_, _, _, _)
BigSubFrom(a, b, i, borrow) ==
    IF i > Len(a) THEN <<>>
    ELSE LET x == a[i] - NatLimb(b, i) - borrow
         IN  <<IF x < 0 THEN x + LimbBase ELSE x>>
                 \o BigSubFrom(a, b, i + 1, IF x < 0 THEN 1 ELSE 0)

BigSub(a, b) == BigTrim(BigSubFrom(a, b, 1, 0))

RECURSIVE BigCmpFrom(_, _, _)
BigCmpFrom(a, b, i) ==
    IF i = 0 THEN 0
    ELSE IF a[i] # b[i] THEN (IF a[i] < b[i] THEN -1 ELSE 1)
    ELSE BigCmpFrom(a, b, i - 1)

\* -1, 0 or 1 as a is below, equal to or above b.
BigCmp(a, b) ==
    IF Len(a) # Len(b) THEN (IF Len(a) < Len(b) THEN -1 ELSE 1)
    ELSE BigCmpFrom(a, b, Len(a))

\* a * k, for k < LimbBase.
RECURSIVE BigMulFrom(_, _, _, _)
BigMulFrom(a, k, i, carry) ==
    IF i > Len(a) THEN BigOfNat(carry)
    ELSE LET x == a[i] * k + carry
         IN  <<x % LimbBase>> \o BigMulFrom(a, k, i + 1, x \div LimbBase)

BigMulSmall(a, k) == BigTrim(BigMulFrom(a, k, 1, 0))

\* a * 2^k
BigShift(a, k) ==
    IF a = <<>> THEN <<>>
    ELSE [i \in 1..(k \div 15) |-> 0] \o BigMulSmall(a, 2^(k % 15))

BigDouble(a) == BigAdd(a, a)

BigIsOdd(a) == a # <<>> /\ a[1] % 2 = 1

\* The number of binary digits of a.
BitLen(a) ==
    IF a = <<>> THEN 0
    ELSE 15 * (Len(a) - 1) + Cardinality({j \in 0..14 : 2^j <= a[Len(a)]})

\* One hexadecimal digit more of a quotient: h is the quotient and remainder
\* by 16 * t, digit the number of times t goes into the remainder.
QuoRemWith(h, t, digit) ==
    [q |-> BigAdd(BigShift(h.q, 4), BigOfNat(digit)),
     r |-> BigSub(h.r, BigMulSmall(t, digit))]

QuoRemDigit(h, t) ==
    IF h.r = <<>> THEN [q |-> BigShift(h.q, 4), r |-> <<>>]
    ELSE QuoRemWith(h, t,
             Cardinality({j \in 1..15 : BigCmp(h.r, BigMulSmall(t, j)) >= 0}))

\* Quotient and remainder of x by y * 16^i, for x < y * 16^14 (the 53
\* binary digits of a mantissa are 14 hexadecimal ones).
RECURSIVE QuoRem(_, _, _)
QuoRem(x, y, i) ==
    IF x = <<>> \/ i = 14 THEN [q |-> <<>>, r |-> x]
    ELSE QuoRemDigit(QuoRem(x, y, i + 1), BigShift(y, 4 * i))

DblZero == [m |-> <<>>, e |-> 0]

\* n / d as n * 2^s / d, or as n / (d * 2^-s) when s is negative.
Scaled(n, d, s) ==
    [n |-> IF s >= 0 THEN BigShift(n, s) ELSE n,
     d |-> IF s >= 0 THEN d ELSE BigShift(d, 0 - s)]

\* A mantissa that rounding has carried to 2^53 is 2^52 with the next exponent.
Normalized(m, e) ==
    IF BigCmp(m, BigShift(<<1>>, 53)) = 0
    THEN [m |-> BigShift(<<1>>, 52), e |-> e + 1]
    ELSE [m |-> m, e |-> e]

\* Round to nearest, ties to even: twice is how the doubled remainder
\* compares with the divisor.
Rounded(q, twice, e) ==
    Normalized(IF twice > 0 \/ (twice = 0 /\ BigIsOdd(q))
               THEN BigAdd(q, <<1>>)
               ELSE q,
               e)

RoundQuotient(qr, d, e) == Rounded(qr.q, BigCmp(BigDouble(qr.r), d), e)

\* The double nearest to sc.n / sc.d * 2^e, for a quotient in 2^52 .. 2^53 - 1.
RoundScaled(sc, e) == RoundQuotient(QuoRem(sc.n, sc.d, 0), sc.d, e)

\* The s with 2^52 <= n / d * 2^s < 2^53, given one that is right or one
\* too many.
ExactShift(n, d, s) ==
    IF BigCmp(Scaled(n, d, s).n, BigShift(Scaled(n, d, s).d, 53)) >= 0
    THEN s - 1
    ELSE s

RoundAt(n, d, e0, s) == RoundScaled(Scaled(n, d, s), e0 - s)

\* The double nearest to n / d * 2^e0 (d # 0).
RoundToDouble(n, d, e0) ==
    IF n = <<>> THEN DblZero
    ELSE RoundAt(n, d, e0, ExactShift(n, d, 53 + BitLen(d) - BitLen(n)))

\* x + y and x / y (y # 0) on doubles.
DblAdd(x, y) ==
    IF x.m = <<>> THEN y
    ELSE IF y.m = <<>> THEN x
    ELSE LET e == IF x.e < y.e THEN x.e ELSE y.e
         IN  RoundToDouble(BigAdd(BigShift(x.m, x.e - e), BigShift(y.m, y.e - e)),
                           <<1>>, e)

DblDiv(x, y) == RoundToDouble(x.m, y.m, x.e - y.e)

\* x > y on doubles that are not negative.
DblGt(x, y) ==
    IF x.m = <<>> THEN FALSE
    ELSE IF y.m = <<>> THEN TRUE
    ELSE x.e > y.e \/ (x.e = y.e /\ BigCmp(x.m, y.m) > 0)

\* Number(x) for a bigint x.
NumberOfBigInt(x) == RoundToDouble(x, <<1>>, 0)

\* Number(s) for the decimal string of hundredths / 100.
NumberOfHundredths(hundredths) == RoundToDouble(BigOfNat(hundredths), BigOfNat(100), 0)

\* An amount of the model, in units of 0.01 KAS, as wei: units * 10^16.
WeiOf(units) ==
    BigMulSmall(BigMulSmall(BigMulSmall(BigMulSmall(BigOfNat(units), 10000),
                                        10000), 10000), 10000)

\* The literal 1e18, and Number(APPROVE_SELL_KAS), Number(MAX_RT_GAS_SHARE).
Dbl1e18 == NumberOfBigInt(BigMulSmall(WeiOf(1), 100))
approveSellKasNumber == NumberOfHundredths(approveSellKas)
maxRtShareNumber == NumberOfHundredths(maxRtShare)

\* sell.ts:356-368: rtShare > maxRtShare, with rtShare = (Number(buyGasWei)
\* / 1e18 + approveSellKas) / (Number(purchaseAmount) / 1e18).  A purchase
\* of 0 makes rtShare Infinity.
rtShareExceeds(buyGasWei, purchaseAmount) ==
    LET buyGasKas == DblDiv(NumberOfBigInt(WeiOf(buyGasWei)), Dbl1e18)
        purchaseKas == DblDiv(NumberOfBigInt(WeiOf(purchaseAmount)), Dbl1e18)
        rtShare == DblDiv(DblAdd(buyGasKas, approveSellKasNumber), purchaseKas)
    IN  IF purchaseAmount = 0 THEN TRUE
        ELSE DblGt(rtShare, maxRtShareNumber)

\* The guard on the amounts the reads of the model give, evaluated once.
BuyGasWeis ==
    {gas * (f + TruncDiv(f * BuyCfg.gasBribeBps, 10000)) :
        gas \in (BuyGasHints \ {NoRead}) \cup {DefaultBuyGas}, f \in BaseGasFees}

rtShareKnown ==
    [buyGasWei \in BuyGasWeis, purchaseAmount \in PurchaseAmounts |->
        rtShareExceeds(buyGasWei, purchaseAmount)]

rtShareSkips(buyGasWei, purchaseAmount) ==
    IF <<buyGasWei, purchaseAmount>> \in DOMAIN rtShareKnown
    THEN rtShareKnown[buyGasWei, purchaseAmount]
    ELSE rtShareExceeds(buyGasWei, purchaseAmount)

\* sell.ts:339-378: with the gas known, the guard skips the buy or the
\* simulated request is sent.
buyGuarded(b, estBuyGas) ==
    IF rtShareSkips(estBuyGas * b.mf, b.purchaseAmount)
    THEN buyNext(b, "guard")
    ELSE [b EXCEPT !.pc = "send"]

\* sell.ts:319-354: simulateContract has answered.  A rejection is asked
\* again; a request without a gas hint has its gas estimated.
buySimulated(b, ok, hint) ==
    IF ~ok THEN [b EXCEPT !.rejected = (@ + 1) % SimCountWrap]
    ELSE IF hint = NoRead
    THEN [b EXCEPT !.pc = "estimateGas", !.simOk = TRUE, !.rejected = 0]
    ELSE buyGuarded([b EXCEPT !.simOk = TRUE, !.rejected = 0], hint)

BuyTx(b) ==
    [kind |-> "buy", token |-> b.token, amount |-> b.purchaseAmount,
     minOut |-> b.minOut, sim |-> b.simOk]

\* The logs the feed delivers in all.
LogBudget == IF scfg.enabled THEN MaxBuyLogs ELSE MaxWatcherLogs

\* watchContractEvent.onLogs with a batch of logs: a new call starts.
BuyOnLogs ==
    /\ prog = "index"
    /\ blogs < LogBudget
    /\ \E h \in BuyIds, logs \in BuyBatches(LogBudget - blogs) :
          /\ bw[h].pc = "idle"
          /\ \A g \in BuyIds : g < h => bw[g].pc # "idle"
          /\ BuyStep(h, buyFrom(bw[h], logs))
          /\ blogs' = blogs + Len(logs)
    /\ UNCHANGED <<prog, ledgerVars, dec, fee, scfg, inFlight, st, gradVars>>

\* sell.ts:283: previewBuyTokens([purchaseAmount]) has answered, and
\* getGasPrice is asked for.
BuyPreview ==
    /\ prog = "index"
    /\ \E h \in BuyIds :
          /\ bw[h].pc = "preview"
          /\ \/ BuyStep(h, buyNext(bw[h], "error"))
             \/ \E purchaseAmount \in PurchaseAmounts, estimation \in BuyEstimations :
                   BuyStep(h, [bw[h] EXCEPT !.pc = "gasPrice",
                                            !.purchaseAmount = purchaseAmount,
                                            !.estimation = estimation])
    /\ UNCHANGED <<prog, ledgerVars, dec, fee, scfg, inFlight, st, blogs, gradVars>>

\* sell.ts:295-317: getGasPrice has answered: fees and minOut are computed
\* and the buy is simulated.
BuyGasPrice ==
    /\ prog = "index"
    /\ \E h \in BuyIds :
          /\ bw[h].pc = "gasPrice"
          /\ \/ BuyStep(h, buyNext(bw[h], "error"))
             \/ \E baseGasFee \in BaseGasFees :
                   LET maxPriorityFeePerGas ==
                           TruncDiv(baseGasFee * BuyCfg.gasBribeBps, 10000)
                   IN  BuyStep(h, [bw[h] EXCEPT
                           !.pc = "simulate",
                           !.estimation = 0,
                           !.mp = maxPriorityFeePerGas,
                           !.mf = baseGasFee + maxPriorityFeePerGas,
                           !.minOut = TruncDiv(bw[h].estimation
                                                  * (10000 - BuyCfg.slippageBps),
                                               10000)])
    /\ UNCHANGED <<prog, ledgerVars, dec, fee, scfg, inFlight, st, blogs, gradVars>>

\* sell.ts:319-337: simulateContract has answered.
BuySimulate ==
    /\ prog = "index"
    /\ \E h \in BuyIds :
          /\ bw[h].pc = "simulate"
          /\ \E ok \in BOOLEAN, hint \in BuyGasHints :
                BuyStep(h, buySimulated(bw[h], ok, hint))
    /\ UNCHANGED <<prog, ledgerVars, dec, fee, scfg, inFlight, st, blogs, gradVars>>

\* estimateGas has answered, or failed.
BuyEstimateGas ==
    /\ prog = "index"
    /\ \E h \in BuyIds :
          /\ bw[h].pc = "estimateGas"
          /\ \E gas \in (BuyGasHints \ {NoRead}) \cup {DefaultBuyGas} :
                BuyStep(h, buyGuarded(bw[h], gas))
    /\ UNCHANGED <<prog, ledgerVars, dec, fee, scfg, inFlight, st, blogs, gradVars>>

\* writeContract(sim.request) has answered.
BuySend ==
    /\ prog = "index"
    /\ \E h \in BuyIds :
          /\ bw[h].pc = "send"
          /\ \/ BuyStep(h, buyNext(bw[h], "error"))
             \/ BuyStep(h, [bw[h] EXCEPT !.pc = "receipt",
                                         !.txs = Append(@, BuyTx(bw[h]))])
    /\ UNCHANGED <<prog, ledgerVars, dec, fee, scfg, inFlight, st, blogs, gradVars>>

\* waitForTransactionReceipt has answered: a successful buy is recorded with
\* the amount spent plus the gas paid.
BuyReceipt ==
    /\ prog = "index"
    /\ \E h \in BuyIds :
          /\ bw[h].pc = "receipt"
          /\ \/ /\ \E why \in {"receipt_error", "reverted"} :
                      BuyStep(h, buyNext(bw[h], why))
                /\ UNCHANGED <<map, objs>>
             \/ \E gasWei \in BuyGasCosts, blockNumber \in ReceiptHeights :
                   LET r == onBuy(map, objs, bw[h].token, bw[h].curve,
                                  bw[h].purchaseAmount + gasWei, blockNumber)
                   IN  /\ map' = r.map
                       /\ objs' = r.objs
                       /\ BuyStep(h, buyNext(bw[h], "bought"))
    /\ UNCHANGED <<prog, snap, led, calls, dec, fee, scfg, inFlight, st, blogs, gradVars>>

InitIndex ==
    /\ prog = "index"
    /\ LedgerIdle
    /\ led = [k \in Keys |-> NoEntries]
    /\ dec = NoDec
    /\ fee = NoFee
    /\ ev = NoEv
    /\ scfg \in SellCfgs
    /\ inFlight = {}
    /\ st = [t \in SellTickIds |-> IdleSell]
    /\ bw = [h \in BuyIds |-> IdleBuy]
    /\ blogs = 0
    /\ GradOff

NextIndex ==
    \/ SellOnBlock
    \/ SellBalance
    \/ SellQuote
    \/ SellEstimate
    \/ SellFees
    \/ SellGasPrice
    \/ SellAllowance
    \/ SellApprove
    \/ SellApproveReceipt
    \/ SellBalance2
    \/ SellQuote2
    \/ SellSimulate
    \/ SellSend
    \/ SellReceipt
    \/ BuyOnLogs
    \/ BuyPreview
    \/ BuyGasPrice
    \/ BuySimulate
    \/ BuyEstimateGas
    \/ BuySend
    \/ BuyReceipt

SpecIndex == InitIndex /\ [][NextIndex]_vars

\* Every network call of the sell loop eventually returns or throws.
SellCallsReturn ==
    /\ WF_vars(SellBalance)
    /\ WF_vars(SellQuote)
    /\ WF_vars(SellEstimate)
    /\ WF_vars(SellFees)
    /\ WF_vars(SellGasPrice)
    /\ WF_vars(SellAllowance)
    /\ WF_vars(SellApprove)
    /\ WF_vars(SellApproveReceipt)
    /\ WF_vars(SellBalance2)
    /\ WF_vars(SellQuote2)
    /\ WF_vars(SellSimulate)
    /\ WF_vars(SellSend)
    /\ WF_vars(SellReceipt)

SpecIndexLive == SpecIndex /\ SellCallsReturn

\* The sniper once a first buy of token "A" on curve "c" has been recorded
\* (100 spent and 5 of gas, at height 1), with hardStopBps 0.
InitHeld ==
    /\ prog = "index"
    /\ LET r == onBuy(<<>>, <<>>, <<65>>, <<99>>, 105, 1)
       IN  map = r.map /\ objs = r.objs
    /\ snap = <<>>
    /\ calls = 0
    /\ led = [k \in Keys |-> NoEntries]
    /\ dec = NoDec
    /\ fee = NoFee
    /\ ev = NoEv
    /\ scfg \in {c \in SellCfgs : c.hardStopBps = 0}
    /\ inFlight = {}
    /\ st = [t \in SellTickIds |-> IdleSell]
    /\ bw = [h \in BuyIds |-> IdleBuy]
    /\ blogs = 0
    /\ GradOff

SpecHeld == InitHeld /\ [][NextIndex]_vars

\* The sniper with appConfig.sell.enabled false: the buy watcher alone.
InitWatcher ==
    /\ prog = "index"
    /\ LedgerIdle
    /\ led = [k \in Keys |-> NoEntries]
    /\ dec = NoDec
    /\ fee = NoFee
    /\ ev = NoEv
    /\ scfg \in WatcherCfgs
    /\ inFlight = {}
    /\ st = [t \in SellTickIds |-> IdleSell]
    /\ bw = [h \in BuyIds |-> IdleBuy]
    /\ blogs = 0
    /\ GradOff

NextWatcher ==
    \/ BuyOnLogs
    \/ BuyPreview
    \/ BuyGasPrice
    \/ BuySimulate
    \/ BuyEstimateGas
    \/ BuySend
    \/ BuyReceipt

SpecWatcher == InitWatcher /\ [][NextWatcher]_vars

\* Every network call of the buy watcher eventually returns or throws.
BuyCallsReturn ==
    /\ WF_vars(BuyPreview)
    /\ WF_vars(BuyGasPrice)
    /\ WF_vars(BuySimulate)
    /\ WF_vars(BuyEstimateGas)
    /\ WF_vars(BuySend)
    /\ WF_vars(BuyReceipt)

SpecWatcherLive == SpecWatcher /\ BuyCallsReturn

----------------------------------------------------------------------------
(* The two programs of the repository: the graduation bot and the sniper.  *)

Init == InitGrad \/ InitIndex

Next == NextGrad \/ NextIndex

Spec == Init /\ [][Next]_vars

----------------------------------------------------------------------------
(* gradbot.ts:89-93 and 111-114: the fees of one graduate() call, from the *)
(* quote through the first transaction and its replacements.               *)

BumpQuotes == [mp : {0, 4, 5, 1000}, mf : {7, 10000}]
BumpRatios == {0, 1, 2000, 10000}

InitFees ==
    /\ prog = "fees"
    /\ LedgerIdle
    /\ led = [k \in Keys |-> NoEntries]
    /\ dec = NoDec
    /\ ev = NoEv
    /\ IndexOff
    /\ GradOff
    /\ \E quote \in BumpQuotes, tipBps \in BumpRatios :
          fee = [phase |-> "on", quote |-> quote, tipBps |-> tipBps, bids |-> <<>>]

\* gradbot.ts:89-93: the fees of the first transaction.
FeeFirst ==
    /\ prog = "fees"
    /\ fee.bids = <<>>
    /\ fee' = [fee EXCEPT !.bids = <<[mp |-> bump(fee.quote.mp, fee.tipBps),
                                     mf |-> bump(fee.quote.mf, fee.tipBps)]>>]
    /\ UNCHANGED <<prog, ledgerVars, dec, ev, indexVars, gradVars>>

\* gradbot.ts:111-114: the fees of a replacement.
FeeReplace ==
    /\ prog = "fees"
    /\ fee.bids # <<>>
    /\ Len(fee.bids) <= MAX_REPLACEMENTS
    /\ LET last == fee.bids[Len(fee.bids)]
       IN  fee' = [fee EXCEPT !.bids = Append(@, [mp |-> bump(last.mp, fee.tipBps),
                                                  mf |-> bump(last.mf, fee.tipBps)])]
    /\ UNCHANGED <<prog, ledgerVars, dec, ev, indexVars, gradVars>>

NextFees == FeeFirst \/ FeeReplace

SpecFees == InitFees /\ [][NextFees]_vars

----------------------------------------------------------------------------
(* Properties of the sell loop                                              *)

\* From the add of the key (positions.ts:218) to the finally.
CriticalPcs ==
    {"allowance", "approve0", "receipt0", "approveMax", "receiptMax",
     "balance2", "quote2", "simulate", "send", "receipt"}

InCritical(tk) == tk.pc \in CriticalPcs

\* C1: two evaluations of one asset key are never both between the add of
\* the key to inFlight and their own release, whatever the interleaving of
\* the onBlock calls.
C1_GuardIsExclusive ==
    \A t, u \in SellTickIds :
        (t # u /\ InCritical(st[t]) /\ InCritical(st[u])) => st[t].key # st[u].key

ApproveAmounts(txs) == [i \in 1..Len(txs) |-> txs[i].amount]

IsPrefix(a, b) == Len(a) <= Len(b) /\ a = SubSeq(b, 1, Len(a))

\* The approvals ensureAllowance is to send, in order.
ExpectedApprovals(current, required) ==
    IF current >= required THEN <<>>
    ELSE IF current = 0 THEN <<MAX_UINT256>>
    ELSE <<0, MAX_UINT256>>

\* C8: once the allowance is read, ensureAllowance sends nothing when it is
\* at least the required amount, only approve(MAX) when it is 0, approve(0)
\* then approve(MAX) when it is positive and too small; a transaction is
\* sent only after the receipt of the one before, and ensureAllowance has
\* returned only with all of them sent and the receipt of each observed.
C8_AllowanceOrder ==
    \A t \in SellTickIds :
        st[t].cur # NoRead =>
            LET tk == st[t]
                expected == ExpectedApprovals(tk.cur, tk.bal)
            IN  /\ \A i \in 1..Len(tk.txs) : tk.txs[i].kind = "approve"
                /\ IsPrefix(ApproveAmounts(tk.txs), expected)
                /\ \A i \in 1..(Len(tk.txs) - 1) : tk.txs[i].rcpt
                /\ tk.pc \in {"balance2", "simulate"} =>
                      /\ ApproveAmounts(tk.txs) = expected
                      /\ \A i \in 1..Len(tk.txs) : tk.txs[i].rcpt

\* ensureAllowance has returned after approve(0) and approve(MAX), each with
\* its receipt, the allowance having been 50 for a required 80.
C8_Witness ==
    \E t \in SellTickIds :
        /\ st[t].pc = "balance2"
        /\ st[t].cur = 50
        /\ st[t].bal = 80
        /\ Len(st[t].txs) = 2
        /\ st[t].txs[1].amount = 0 /\ st[t].txs[1].rcpt
        /\ st[t].txs[2].amount = MAX_UINT256 /\ st[t].txs[2].rcpt

\* C9: when the balance read again inside the critical section is zero, the
\* position is removed, the key is released, and the evaluation has sent no
\* transaction.
C9_ZeroRereadSendsNothing ==
    (ev.who = "sell" /\ ev.exit.why = "balance2_zero") =>
        /\ ev.exit.removed
        /\ ev.exit.released
        /\ ev.txs = <<>>

----------------------------------------------------------------------------
(* Properties of graduate()                                                 *)

\* The transactions of the graduate() calls under way, and of the one the
\* last step ended.
GradBidLists ==
    {gt[t].bids : t \in {u \in GradTickIds : prog = "gradbot"}}
        \cup (IF ev.who = "graduate" THEN {ev.bids} ELSE {})

\* C4: every transaction sent again by one graduate() call carries the
\* nonce of the first transaction of that call.
C4_ReplacementKeepsNonce ==
    \A bids \in GradBidLists :
        \A i \in 1..Len(bids) : bids[i].nonce = bids[1].nonce

\* C6: graduate() returns true only with every sent transaction awaited, the
\* last one confirmed; it returns false only after the first transaction
\* and MAX_REPLACEMENTS replacements have each been sent and awaited.
C6_ReplacementBudget ==
    ev.who = "graduate" =>
        /\ ev.ret = "true" =>
              /\ Len(ev.bids) <= MAX_REPLACEMENTS + 1
              /\ \A i \in 1..Len(ev.bids) : ev.bids[i].awaited
        /\ ev.ret = "false" =>
              /\ Len(ev.bids) = MAX_REPLACEMENTS + 1
              /\ \A i \in 1..Len(ev.bids) : ev.bids[i].awaited

----------------------------------------------------------------------------
(* Properties of the fee bump                                               *)

FeePairs == {i \in 1..Len(fee.bids) : i > 1}

\* C5 as stated: on every replacement both fees are strictly greater than
\* those of the attempt before, for every quote and every positive ratio.
C5_StrictlyGreater ==
    (fee.phase = "on" /\ fee.tipBps > 0) =>
        \A i \in FeePairs :
            /\ fee.bids[i].mp > fee.bids[i - 1].mp
            /\ fee.bids[i].mf > fee.bids[i - 1].mf

\* C5, amended: on every replacement each fee is x + (x * bumpBps) / 10000
\* truncated, never lower than the fee x before, and strictly greater
\* exactly when x * bumpBps >= 10000.
C5_NeverLower ==
    fee.phase = "on" =>
        \A i \in FeePairs :
            LET old == fee.bids[i - 1]
                new == fee.bids[i]
            IN  /\ new.mp = old.mp + ((old.mp * fee.tipBps) \div 10000)
                /\ new.mf = old.mf + ((old.mf * fee.tipBps) \div 10000)
                /\ new.mp >= old.mp
                /\ new.mf >= old.mf
                /\ (new.mp > old.mp) <=> (old.mp * fee.tipBps >= 10000)
                /\ (new.mf > old.mf) <=> (old.mf * fee.tipBps >= 10000)

\* A replacement at 2000 bps whose priority fee stays at 4 while its max
\* fee rises from 12000 to 14400.
C5_Witness ==
    /\ fee.phase = "on"
    /\ fee.tipBps = 2000
    /\ Len(fee.bids) >= 2
    /\ fee.bids[1] = [mp |-> 4, mf |-> 12000]
    /\ fee.bids[2] = [mp |-> 4, mf |-> 14400]

----------------------------------------------------------------------------
(* Simulation before sending                                                *)

SellTxLists ==
    {st[t].txs : t \in {u \in SellTickIds : prog = "index"}}
        \cup (IF ev.who = "sell" THEN {ev.txs} ELSE {})

BuyTxLists ==
    {bw[h].txs : h \in {g \in BuyIds : prog = "index"}}
        \cup (IF ev.who = "buy" THEN {ev.txs} ELSE {})

\* C3: a graduation, sell or buy transaction is sent only with the request
\* of a simulation that succeeded in the same attempt; a rejected
\* simulation ends a graduation or a sell with no such transaction sent,
\* and a buy is simulated again until it is accepted.
C3_SimulateBeforeSend ==
    /\ \A bids \in GradBidLists : \A i \in 1..Len(bids) : bids[i].sim
    /\ \A txs \in SellTxLists :
          \A i \in 1..Len(txs) : txs[i].kind = "sell" => txs[i].sim
    /\ \A txs \in BuyTxLists : \A i \in 1..Len(txs) : txs[i].sim
    /\ (ev.who = "graduate" /\ ev.ret = "rejected") => ev.bids = <<>>
    /\ (ev.who = "sell" /\ ev.exit.why = "sim_rejected") =>
          \A i \in 1..Len(ev.txs) : ev.txs[i].kind # "sell"
    /\ \A h \in {g \in BuyIds : prog = "index"} :
          bw[h].pc \in {"estimateGas", "send"} => bw[h].simOk

\* A graduate() call whose simulation was rejected has ended with nothing sent.
C3_Witness ==
    /\ ev.who = "graduate"
    /\ ev.ret = "rejected"
    /\ ev.bids = <<>>

----------------------------------------------------------------------------
(* The take-profit threshold as a function of takeProfitBps                 *)

\* Net proceeds among which the least that triggers is looked for.
TriggerNets == 0..130

\* The least net proceeds at which shouldTP (positions.ts:204) is true.
minTriggerNet(totalCostWei, cfg) ==
    CHOOSE n \in TriggerNets :
        /\ shouldTP(n, totalCostWei, cfg)
        /\ \A m \in TriggerNets : m < n => ~shouldTP(m, totalCostWei, cfg)

\* The cfg of the decision with another takeProfitBps.
withTakeProfit(cfg, tp) == [cfg EXCEPT !.takeProfitBps = tp]

LowerTakeProfits == {a \in GateTakeProfits : dec.phase = "out" /\ a < dec.cfg.takeProfitBps}

\* C11 as stated: for a fixed cost basis and takeProfitBps a < b, the least
\* net proceeds that trigger take-profit under b is strictly greater than
\* the least that trigger it under a.
C11_StrictlyMonotonic ==
    (dec.phase = "out" /\ dec.loop = "positions.ts") =>
        \A a \in LowerTakeProfits :
            minTriggerNet(dec.totalCostWei, withTakeProfit(dec.cfg, a))
                < minTriggerNet(dec.totalCostWei, dec.cfg)

\* C11, amended: for a fixed cost basis and takeProfitBps a < b, the least
\* net proceeds that trigger take-profit under b is never lower than under
\* a, and is strictly greater whenever costBasis * (b - a) >= 10000; the
\* decision made agrees with that least value.
C11_NeverLower ==
    (dec.phase = "out" /\ dec.loop = "positions.ts") =>
        /\ dec.shouldTP <=> dec.net >= minTriggerNet(dec.totalCostWei, dec.cfg)
        /\ \A a \in LowerTakeProfits :
              LET lo == minTriggerNet(dec.totalCostWei, withTakeProfit(dec.cfg, a))
                  hi == minTriggerNet(dec.totalCostWei, dec.cfg)
              IN  /\ lo <= hi
                  /\ dec.totalCostWei * (dec.cfg.takeProfitBps - a) >= 10000 => lo < hi

\* A cost basis of 3 decided at 2000 bps: take-profit fires at net 3, the
\* least net that triggers it at 0 bps too.
C11_Witness ==
    /\ dec.phase = "out"
    /\ dec.loop = "positions.ts"
    /\ dec.totalCostWei = 3
    /\ dec.cfg.takeProfitBps = 2000
    /\ dec.cfg.minProfitWei = 0
    /\ dec.net = 3
    /\ dec.shouldTP
    /\ minTriggerNet(3, withTakeProfit(dec.cfg, 0)) = 3
    /\ minTriggerNet(3, dec.cfg) = 3

----------------------------------------------------------------------------
(* The sell that is sent                                                    *)

\* C12: with the stop-loss off (hardStopBps = 0) no sell transaction is sent
\* at a negative net P&L: the quote taken again inside the critical section,
\* from which the sent minOut is computed, is not below the cost basis (net
\* proceeds are that quote less the gas, so a quote below cost is a net
\* loss).
C12_NoLossSellWhenStopLossOff ==
    (prog = "index" /\ scfg.hardStopBps = 0) =>
        \A txs \in SellTxLists :
            \A i \in 1..Len(txs) : txs[i].kind = "sell" => txs[i].quote >= txs[i].cost

----------------------------------------------------------------------------
(* Properties of the buy watcher                                            *)

\* What one buy adds to the cost basis: the amount spent plus the gas paid.
SingleSpends == {p + g : p \in PurchaseAmounts, g \in BuyGasCosts}

\* C13: whatever the feed delivers again, at most one buy is sent for an
\* asset and its cost basis is recorded at most once: no buy is out for a
\* token whose position an earlier buy has recorded, and the cost basis of a
\* position is what one buy spends.
C13_OneBuyPerAsset ==
    prog = "index" =>
        /\ \A h \in BuyIds :
              \A i \in 1..Len(bw[h].txs) : ~MapHas(map, keyOf(bw[h].txs[i].token))
        /\ \A i \in 1..Len(map) : objs[map[i].o].totalCostWei \in SingleSpends

----------------------------------------------------------------------------
(* Properties of the graduation watch                                       *)

\* A graduate() call for the curve has returned true and tick() has marked it.
Claimed(curve) ==
    \E o \in 1..Len(infos) :
        infos[o].curve = curve /\ infos[o].claimed /\ infos[o].graduated

\* The tick() calls that send a transaction in this step.
GradSenders == {t \in GradTickIds : txCount' # txCount /\ gt'[t] # gt[t]}

\* C14: once a graduate() call for a curve has returned true and the curve
\* is marked graduated, no graduation transaction is sent for that curve
\* again, by a later tick, by a tick under way, or after the curve is
\* announced again.
C14_NoClaimAfterGraduation ==
    [][prog = "gradbot" =>
          \A t \in GradSenders : ~Claimed(infos[gt[t].info].curve)]_vars

----------------------------------------------------------------------------
(* Release of the guard                                                     *)

\* The keys of the evaluations between the add (positions.ts:218) and their
\* finally.
HeldKeys == {st[t].key : t \in {u \in SellTickIds : InCritical(st[u])}}

\* A new onBlock call with a block number starts in this step.
SellStarts == {t \in SellTickIds : st[t].pc = "idle" /\ st'[t].blockNumber # 0}

\* C15: an evaluation that has added its key to inFlight removes it before
\* it ends, on every way out: a key in inFlight is the key of an evaluation
\* still in its critical section, and the evaluation that ends leaves its key
\* out of inFlight.  With every network call returning or throwing, a key
\* in inFlight is eventually out of it, and an onBlock call that starts with
\* no key held evaluates the position of the ledger.
C15_GuardReleased ==
    /\ [](inFlight \subseteq HeldKeys)
    /\ [](ev.who = "sell" => ev.exit.released)
    /\ \A k \in Keys : (k \in inFlight) ~> (k \notin inFlight)
    /\ \A t \in SellTickIds : InCritical(st[t]) ~> ~InCritical(st[t])
    /\ [][\A t \in SellStarts :
              (map # <<>> /\ inFlight = {}) => st'[t].pc = "balance"]_vars

\* An evaluation whose approval receipt wait threw inside the critical
\* section has ended with its key released and its position kept.
C15_Witness ==
    /\ ev.who = "sell"
    /\ ev.exit.why = "approve_receipt_failed"
    /\ ev.exit.released
    /\ ~ev.exit.removed
    /\ ev.exit.key \notin inFlight

----------------------------------------------------------------------------
(* Failure of an allowance step                                             *)

\* The step ends an evaluation in ensureAllowance: an approval could not be
\* sent, or the wait for its receipt threw.
AllowanceAborts == {"approve_failed", "approve_receipt_failed"}

\* C16: when an approval of ensureAllowance fails to send or the wait for
\* its receipt fails, the evaluation ends there: it has sent no sell, its
\* key is out of inFlight, and the ledger is as it was.
C16_AllowanceFailureAborts ==
    [][(ev'.who = "sell" /\ ev'.exit.why \in AllowanceAborts) =>
          /\ \A i \in 1..Len(ev'.txs) : ev'.txs[i].kind # "sell"
          /\ ev'.exit.released
          /\ map' = map]_vars

----------------------------------------------------------------------------
(* The min-hold gate                                                        *)

\* After the min-hold test (positions.ts:165) of an evaluation.
PastHoldPcs == {"quote", "estimate", "fees", "gasPrice"} \cup CriticalPcs

\* Blocks between the first buy of the position an onBlock call evaluates
\* and the block of the call.
heldFor(tk) == tk.blockNumber - objs[tk.pos].firstSeenBlock

\* C17: an evaluation at height h goes past the min-hold test, to the quote,
\* the trigger and the sell, only with h - firstSeenBlock >= minHoldBlocks,
\* and it is stopped by the test exactly when h - firstSeenBlock <
\* minHoldBlocks: heights are compared, whatever blocks were delivered
\* before.
C17_MinHoldByHeight ==
    /\ [](\A t \in SellTickIds :
              (prog = "index" /\ st[t].pc \in PastHoldPcs) =>
                  heldFor(st[t]) >= scfg.minHoldBlocks)
    /\ [][\A t \in SellTickIds :
              (prog = "index" /\ st[t].pc = "balance") =>
                  /\ (ev'.who = "sell" /\ ev'.t = t /\ ev'.exit.why = "min_hold") =>
                        heldFor(st[t]) < scfg.minHoldBlocks
                  /\ st'[t].pc = "quote" => heldFor(st[t]) >= scfg.minHoldBlocks
                  /\ (st'[t] # st[t] /\ heldFor(st[t]) >= scfg.minHoldBlocks) =>
                        ~(ev'.who = "sell" /\ ev'.t = t /\ ev'.exit.why = "min_hold")]_vars

\* The first block delivered is 3, two blocks after the buy at 1, none
\* having been delivered in between: the evaluation is past the test.
C17_Witness ==
    /\ prog = "index"
    /\ st[1].pc = "quote"
    /\ st[1].blockNumber = 3
    /\ objs[st[1].pos].firstSeenBlock = 1
    /\ heldFor(st[1]) = scfg.minHoldBlocks
    /\ st[2].pc = "idle"

----------------------------------------------------------------------------
(* The array allPositions() returns                                         *)

\* The step changes the ledger: onBuy, removePosition or upsertPosition.
LedgerMutates == map' # map \/ objs' # objs

\* C18: the array returned by allPositions() is a snapshot: a later onBuy
\* (of an asset in it or of a new one), removePosition or upsertPosition
\* changes neither the positions it holds nor the totalCostWei,
\* firstSeenBlock and curve of any of them.
C18_SnapshotIsStable ==
    [][(prog = "ledger" /\ LedgerMutates) =>
          /\ snap' = snap
          /\ \A i \in 1..Len(snap) : objs'[snap[i]] = objs[snap[i]]]_vars

----------------------------------------------------------------------------
(* Graduation claims under way                                              *)

\* graduate() of the tick has a transaction out and has not returned.
ClaimInFlight(tk) == tk.pc \in {"wait", "resend"} /\ tk.bids # <<>>

\* C19: for one curve, two graduation claims are never in flight together,
\* overlapping ticks included.
C19_OneClaimPerCurve ==
    prog = "gradbot" =>
        \A t, u \in GradTickIds :
            (t # u /\ ClaimInFlight(gt[t]) /\ ClaimInFlight(gt[u])) =>
                infos[gt[t].info].curve # infos[gt[u].info].curve

----------------------------------------------------------------------------
(* What makes graduate() send again                                         *)

\* C20: graduate() bumps the fees and sends again only when the wait for
\* the receipt timed out; when the wait fails with another error nothing is
\* sent again and the failure leaves graduate().
C20_OnlyTimeoutReplaces ==
    prog = "gradbot" =>
        \A t \in GradTickIds : gt[t].pc = "resend" => gt[t].caught = "timeout"

----------------------------------------------------------------------------
(* Eligibility of a curve                                                   *)

\* C21: with both signals readable the isGraduatable flag decides: a claim
\* is attempted only when the flag reads true, or when the flag cannot be
\* read and progressBps reads 10000 or more; a flag that reads false stops
\* the attempt whatever progressBps says.
C21_FlagDecides ==
    prog = "gradbot" =>
        \A t \in GradTickIds :
            gt[t].pc = "jitter" =>
                \/ gt[t].reads.graduatable = "true"
                \/ /\ gt[t].reads.graduatable = "throws"
                   /\ ~gt[t].reads.threw
                   /\ gt[t].reads.bps >= 10000

----------------------------------------------------------------------------
(* The arguments of the sell                                                *)

\* C22: the sell that is sent has for amount the balance read again once
\* the guard is held and for minOut the quote taken for that balance,
\* times (10000 - slippageBps) / 10000 truncated; the balance and the quote
\* read before the trigger are not what is sent.
C22_SellUsesFreshReads ==
    (prog = "args" /\ dec.phase = "out") =>
        /\ dec.amount = dec.bal2
        /\ dec.minOut = (dec.kasOut2 * (10000 - dec.cfg.slippageBps)) \div 10000

\* C23: while a sell of amount a is being simulated, sent or awaited, the
\* ensureAllowance call of the same critical section was made with a
\* required amount of at least a.
C23_AllowanceCoversSell ==
    prog = "index" =>
        \A t \in SellTickIds :
            st[t].pc \in {"simulate", "send", "receipt"} => st[t].bal >= st[t].bal2

SellsSent(txs) == Cardinality({i \in 1..Len(txs) : txs[i].kind = "sell"})

\* C24: an evaluation whose sell is left on a confirmation timeout has sent
\* the sell again after each timeout, MAX_REPLACEMENTS times in all, and
\* leaves the position in the ledger.
C24_SellTimeoutReplaces ==
    (ev.who = "sell" /\ ev.exit.why = "receipt_timeout") =>
        /\ SellsSent(ev.txs) = 1 + MAX_REPLACEMENTS
        /\ ~ev.exit.removed

----------------------------------------------------------------------------
(* Properties of the buy watcher's simulate loop                            *)

\* C25: the handler does not simulate the buy of one log for ever: with
\* every call answering, it leaves the simulate loop of a log, to send the
\* buy or to go on to the next log of the batch, whatever the answers are.
C25_SimulateLoopEnds ==
    \A h \in BuyIds :
        []((prog = "index" /\ bw[h].pc = "simulate") => <>(bw[h].pc # "simulate"))

----------------------------------------------------------------------------
(* Who releases the guard                                                   *)

\* C26: a key leaves inFlight only by a step of the evaluation that added
\* it, that is, of an evaluation of that key which is between its add and
\* its release; an evaluation that is left before its add removes no key.
C26_ReleasedByHolder ==
    [][\A k \in inFlight \ inFlight' :
          \E t \in SellTickIds :
              /\ st'[t] # st[t]
              /\ InCritical(st[t])
              /\ st[t].key = k]_vars

----------------------------------------------------------------------------
(* The receipt of a graduation claim                                        *)

\* C27: a graduate() call returns true, and tick() marks the curve, only
\* with a receipt of status success for one of the call's transactions; a
\* receipt of status reverted does not make the call return true.
C27_SuccessReceiptOnly ==
    (ev.who = "graduate" /\ ev.ret = "true") =>
        /\ \E i \in 1..Len(ev.bids) : ev.bids[i].status = "success"
        /\ \A i \in 1..Len(ev.bids) : ev.bids[i].status # "reverted"

----------------------------------------------------------------------------
(* A buy beside a sell                                                      *)

\* C28: when the receipt of a sell reports success and the position is
\* removed, the position removed is the one whose balance was read again
\* and sold, with the cost it had at that read: no buy recorded in it since
\* is dropped with it.
C28_RemovesOnlyWhatWasSold ==
    [][\A t \in SellTickIds :
          ( /\ prog = "index"
            /\ st[t].pc = "receipt"
            /\ ev'.who = "sell"
            /\ ev'.t = t
            /\ ev'.exit.why = "sold"
            /\ MapHas(map, st[t].key) ) =>
              /\ MapGet(map, st[t].key) = st[t].pos
              /\ objs[st[t].pos].totalCostWei = st[t].cost2]_vars

====
